---- MODULE Spec2Model ----
(***************************************************************************)
(* A model of the shallow query layer: ShallowWrapper over the element     *)
(* tree a shallow render returns, with the traversal helpers of            *)
(* ShallowTraversal.js.                                                    *)
(*                                                                         *)
(* Elements are JavaScript values compared with ===.  An element object is *)
(* a number of Nodes; its props.children is kids[n].  The same value can   *)
(* sit at several places of a tree (an element object used twice, or two   *)
(* equal text leaves), so a rendered tree is the unfolding of kids from    *)
(* the root's node, and a place in it is a path of child indexes.          *)
(*                                                                         *)
(* A predicate over nodes (a compiled selector, a findWhere callback, a    *)
(* class name, an event's handler prop) is modelled by its extension: the  *)
(* set of nodes it holds of.                                               *)
(***************************************************************************)
EXTENDS Integers, Sequences, FiniteSets, TLC

\* Bounds of the model.
MaxNodes == 4
MaxKids == 2
MaxEdges == 3
MaxOutputs == 2
MaxArgs == 2
MaxRefs == 2

\* The value of this.nodes[index] outside the array, and of parents().nodes[0]
\* of a node without ancestors.
Undefined == 0

Nodes == 1..MaxNodes

\* The elements the renderer can return as the root component's render output.
Outputs == 1..MaxOutputs
NodeVals == Nodes \cup {Undefined}

VARIABLES
    kids,      \* kids[n]: the children of element n, in render order
    output,    \* root.renderer.getRenderOutput()
    rootNode,  \* root.node, the root wrapper's snapshot
    nodes,     \* this.nodes of the wrapper the caller currently holds
    isRoot,    \* this.root === this for that wrapper
    last,      \* the last call: its receiver, arguments and outcome
    rootNodes, \* root.nodes
    thisNode,  \* this.node of the wrapper the caller holds
    thisLength, \* this.length of that wrapper
    unrendered, \* the props of root.unrendered, the element given to shallow()
    instance,  \* root.instance(): the props it was last rendered with, its state
    trace,     \* the last call on the component's life cycle, as the test saw it
    pure       \* a call of a function of Utils.js: its arguments, its results

vars == <<kids, output, rootNode, nodes, isRoot, last,
          rootNodes, thisNode, thisLength, unrendered, instance, trace, pure>>

\* The fields of the wrapper the caller holds, and of the root wrapper.
held == <<nodes, thisNode, thisLength, isRoot>>
snapshot == <<rootNode, rootNodes>>
component == <<unrendered, instance>>

----------------------------------------------------------------------------
\* Sequences, as the underscore and Array helpers compute them.

Range(s) == {s[i] : i \in 1..Len(s)}

Reverse(s) == [i \in 1..Len(s) |-> s[Len(s) + 1 - i]]

RECURSIVE flatten(_)
\* flatten(arrays, true): one level of nesting removed.
flatten(ss) == IF ss = <<>> THEN <<>> ELSE Head(ss) \o flatten(Tail(ss))

\* A flatMap that forgets to de-duplicate.
uniqueKeepsAll(s) == s

\* unique(array): the first occurrence of every value, by ===.
unique(s) ==
    LET firsts == {i \in 1..Len(s) : \A j \in 1..(i - 1) : s[j] # s[i]}
        RECURSIVE Pick(_)
        Pick(i) == IF i > Len(s) THEN <<>>
                   ELSE (IF i \in firsts THEN <<s[i]>> ELSE <<>>) \o Pick(i + 1)
    IN Pick(1)

\* compact(array): the falsy values removed.
compact(s) == SelectSeq(s, LAMBDA x : x # Undefined)

----------------------------------------------------------------------------
\* ShallowTraversal.js

\* A childrenOfNode that goes on into the children's own children.
childrenOfNodeDeep(n) ==
    IF n = Undefined THEN <<>>
    ELSE kids[n] \o flatten([i \in 1..Len(kids[n]) |-> kids[kids[n][i]]])

childrenOfNode(n) == IF n = Undefined THEN <<>> ELSE kids[n]

RECURSIVE treeForEachChildrenFirst(_)
\* A treeForEach that calls fn after the recursion instead of before it.
treeForEachChildrenFirst(tree) ==
    LET RECURSIVE Each(_)
        Each(cs) == IF cs = <<>> THEN <<>>
                    ELSE treeForEachChildrenFirst(Head(cs)) \o Each(Tail(cs))
    IN Each(childrenOfNode(tree)) \o <<tree>>

RECURSIVE treeForEach(_)
\* The nodes fn is called with, in call order.
treeForEach(tree) ==
    LET RECURSIVE Each(_)
        Each(cs) == IF cs = <<>> THEN <<>>
                    ELSE treeForEach(Head(cs)) \o Each(Tail(cs))
    IN <<tree>> \o Each(childrenOfNode(tree))

\* fn is the set of nodes the predicate holds of.
treeFilter(tree, fn) == SelectSeq(treeForEach(tree), LAMBDA x : x \in fn)

NoPath == [found |-> FALSE, path |-> <<>>]

RECURSIVE pathLoop(_, _, _)
\* The while loop of pathToNode: queue.pop() takes the last element.
pathLoop(node, queue, path) ==
    IF queue = <<>> THEN NoPath
    ELSE LET current == queue[Len(queue)]
             children == childrenOfNode(current)
             rest == SubSeq(queue, 1, Len(queue) - 1)
         IN IF current = node THEN [found |-> TRUE, path |-> path]
            ELSE pathLoop(node, rest \o children,
                          IF children = <<>> THEN path ELSE Append(path, current))

\* found = FALSE is the null result.
pathToNode(node, root) == pathLoop(node, <<root>>, <<>>)

\* A parentsOfNode that takes null for an empty path.
parentsOfNodeOrNone(node, root) ==
    [threw |-> FALSE, nodes |-> Reverse(pathToNode(node, root).path)]

\* pathToNode(node, root).reverse(): a TypeError on null.
parentsOfNode(node, root) ==
    LET p == pathToNode(node, root)
    IN [threw |-> ~p.found, nodes |-> Reverse(p.path)]

----------------------------------------------------------------------------
\* The element trees a render can return: child lists hold later-numbered
\* elements only (a tree is acyclic), MaxEdges child places in all.

KidSeqs(n, room) ==
    UNION {[1..k -> (n + 1)..MaxNodes] : k \in 0..(IF room < MaxKids THEN room ELSE MaxKids)}

RECURSIVE TreesFrom(_, _)
\* The child lists of elements n..MaxNodes, as a sequence, with at most room
\* child places.
TreesFrom(n, room) ==
    IF n > MaxNodes THEN {<<>>}
    ELSE UNION {{<<k>> \o t : t \in TreesFrom(n + 1, room - Len(k))} : k \in KidSeqs(n, room)}

RECURSIVE reachFrom(_, _)
\* The elements of the tree of element n under the child lists k.
reachFrom(k, n) == {n} \cup UNION {reachFrom(k, k[n][i]) : i \in 1..Len(k[n])}

RECURSIVE visitOrder(_, _)
\* The elements of the tree of n in the order a walk first meets them.
visitOrder(k, n) ==
    LET RECURSIVE Each(_)
        Each(cs) == IF cs = <<>> THEN <<>> ELSE visitOrder(k, Head(cs)) \o Each(Tail(cs))
    IN <<n>> \o Each(k[n])

\* One tree for every way of naming its elements: an element outside the
\* render outputs' trees has no children, and the elements that are not
\* outputs are numbered in the order a walk of the outputs' trees meets them.
Canonical(k) ==
    LET RECURSIVE Walk(_)
        Walk(o) == IF o > MaxOutputs THEN <<>> ELSE visitOrder(k, o) \o Walk(o + 1)
        walk == Walk(1)
        FirstAt(n) == CHOOSE i \in 1..Len(walk) :
                          walk[i] = n /\ \A j \in 1..(i - 1) : walk[j] # n
        met == {walk[i] : i \in 1..Len(walk)} \ Outputs
    IN /\ \A n \in Nodes : k[n] # <<>> => \E o \in Outputs : n \in reachFrom(k, o)
       /\ met = (MaxOutputs + 1)..(MaxOutputs + Cardinality(met))
       /\ \A a, b \in met : a < b => FirstAt(a) < FirstAt(b)

Trees == {k \in TreesFrom(1, MaxEdges) : Canonical(k)}

\* The elements of the trees of the nodes ns: the ones a call on a wrapper of
\* ns can apply a predicate to.
Scope(ns) == UNION {reachFrom(kids, ns[i]) : i \in {j \in 1..Len(ns) : ns[j] # Undefined}}

\* The selectors and predicates a caller can pass, by extension: one for
\* every set of the elements at hand it can hold of.  A compiled selector
\* holds of no undefined node (hasClassName, nodeHasId and nodeHasType are
\* false of it).
Selectors(ns) == SUBSET Scope(ns)

\* Enough for a predicate applied to one node only: it holds of it or not.
Flags == {{}, Nodes}

\* The mapping functions flatMap is called with: w => w.children().nodes,
\* w => [w.node, w.node], and w => list for a fixed list.
ConstLists == UNION {[1..k -> Outputs] : k \in 0..MaxKids}
FlatMapFns == {[kind |-> "kids", list |-> <<>>], [kind |-> "twice", list |-> <<>>]}
              \cup {[kind |-> "const", list |-> l] : l \in ConstLists}

NoFn == [kind |-> "none", list |-> <<>>]

NoCall == [op |-> "none", recv |-> <<>>, sel |-> {}, hasSel |-> FALSE, idx |-> 0,
           fn |-> NoFn, threw |-> FALSE, wrapper |-> FALSE, res |-> <<>>,
           self |-> FALSE, fresh |-> FALSE, cb |-> <<>>, val |-> FALSE,
           before |-> 0, after |-> 0]

----------------------------------------------------------------------------
\* Strings are sequences of characters, so that the string operations of the
\* code are computed and not assumed.

LowerCase == <<"a", "b", "c", "d", "e", "f", "g", "h", "i", "j", "k", "l", "m", "n", "o", "p", "q", "r", "s", "t", "u", "v", "w", "x", "y", "z">>

UpperCase == <<"A", "B", "C", "D", "E", "F", "G", "H", "I", "J", "K", "L", "M", "N", "O", "P", "Q", "R", "S", "T", "U", "V", "W", "X", "Y", "Z">>

\* String.prototype.toUpperCase on one character.
toUpperCase(c) ==
    IF \E i \in 1..Len(LowerCase) : LowerCase[i] = c
    THEN UpperCase[CHOOSE i \in 1..Len(LowerCase) : LowerCase[i] = c]
    ELSE c

\* `on${event[0].toUpperCase()}${event.substring(1)}`
propFromEvent(event) == <<"o", "n">> \o <<toUpperCase(event[1])>> \o Tail(event)

\* The table of mapNativeEventNames, as pairs of a DOM name and its React
\* name (the two entries added for React 0.14 only are left out).
nativeToReactEventMap == {
    <<<<"c", "o", "m", "p", "o", "s", "i", "t", "i", "o", "n", "e", "n", "d">>,
      <<"c", "o", "m", "p", "o", "s", "i", "t", "i", "o", "n", "E", "n", "d">>>>,
    <<<<"c", "o", "m", "p", "o", "s", "i", "t", "i", "o", "n", "s", "t", "a", "r", "t">>,
      <<"c", "o", "m", "p", "o", "s", "i", "t", "i", "o", "n", "S", "t", "a", "r", "t">>>>,
    <<<<"c", "o", "m", "p", "o", "s", "i", "t", "i", "o", "n", "u", "p", "d", "a", "t", "e">>,
      <<"c", "o", "m", "p", "o", "s", "i", "t", "i", "o", "n", "U", "p", "d", "a", "t", "e">>>>,
    <<<<"k", "e", "y", "d", "o", "w", "n">>,
      <<"k", "e", "y", "D", "o", "w", "n">>>>,
    <<<<"k", "e", "y", "u", "p">>,
      <<"k", "e", "y", "U", "p">>>>,
    <<<<"k", "e", "y", "p", "r", "e", "s", "s">>,
      <<"k", "e", "y", "P", "r", "e", "s", "s">>>>,
    <<<<"c", "o", "n", "t", "e", "x", "t", "m", "e", "n", "u">>,
      <<"c", "o", "n", "t", "e", "x", "t", "M", "e", "n", "u">>>>,
    <<<<"d", "o", "u", "b", "l", "e", "c", "l", "i", "c", "k">>,
      <<"d", "o", "u", "b", "l", "e", "C", "l", "i", "c", "k">>>>,
    <<<<"d", "r", "a", "g", "e", "n", "d">>,
      <<"d", "r", "a", "g", "E", "n", "d">>>>,
    <<<<"d", "r", "a", "g", "e", "n", "t", "e", "r">>,
      <<"d", "r", "a", "g", "E", "n", "t", "e", "r">>>>,
    <<<<"d", "r", "a", "g", "e", "x", "i", "s", "t">>,
      <<"d", "r", "a", "g", "E", "x", "i", "t">>>>,
    <<<<"d", "r", "a", "g", "l", "e", "a", "v", "e">>,
      <<"d", "r", "a", "g", "L", "e", "a", "v", "e">>>>,
    <<<<"d", "r", "a", "g", "o", "v", "e", "r">>,
      <<"d", "r", "a", "g", "O", "v", "e", "r">>>>,
    <<<<"d", "r", "a", "g", "s", "t", "a", "r", "t">>,
      <<"d", "r", "a", "g", "S", "t", "a", "r", "t">>>>,
    <<<<"m", "o", "u", "s", "e", "d", "o", "w", "n">>,
      <<"m", "o", "u", "s", "e", "D", "o", "w", "n">>>>,
    <<<<"m", "o", "u", "s", "e", "m", "o", "v", "e">>,
      <<"m", "o", "u", "s", "e", "M", "o", "v", "e">>>>,
    <<<<"m", "o", "u", "s", "e", "o", "u", "t">>,
      <<"m", "o", "u", "s", "e", "O", "u", "t">>>>,
    <<<<"m", "o", "u", "s", "e", "o", "v", "e", "r">>,
      <<"m", "o", "u", "s", "e", "O", "v", "e", "r">>>>,
    <<<<"m", "o", "u", "s", "e", "u", "p">>,
      <<"m", "o", "u", "s", "e", "U", "p">>>>,
    <<<<"t", "o", "u", "c", "h", "c", "a", "n", "c", "e", "l">>,
      <<"t", "o", "u", "c", "h", "C", "a", "n", "c", "e", "l">>>>,
    <<<<"t", "o", "u", "c", "h", "e", "n", "d">>,
      <<"t", "o", "u", "c", "h", "E", "n", "d">>>>,
    <<<<"t", "o", "u", "c", "h", "m", "o", "v", "e">>,
      <<"t", "o", "u", "c", "h", "M", "o", "v", "e">>>>,
    <<<<"t", "o", "u", "c", "h", "s", "t", "a", "r", "t">>,
      <<"t", "o", "u", "c", "h", "S", "t", "a", "r", "t">>>>,
    <<<<"c", "a", "n", "p", "l", "a", "y">>,
      <<"c", "a", "n", "P", "l", "a", "y">>>>,
    <<<<"c", "a", "n", "p", "l", "a", "y", "t", "h", "r", "o", "u", "g", "h">>,
      <<"c", "a", "n", "P", "l", "a", "y", "T", "h", "r", "o", "u", "g", "h">>>>,
    <<<<"d", "u", "r", "a", "t", "i", "o", "n", "c", "h", "a", "n", "g", "e">>,
      <<"d", "u", "r", "a", "t", "i", "o", "n", "C", "h", "a", "n", "g", "e">>>>,
    <<<<"l", "o", "a", "d", "e", "d", "d", "a", "t", "a">>,
      <<"l", "o", "a", "d", "e", "d", "D", "a", "t", "a">>>>,
    <<<<"l", "o", "a", "d", "e", "d", "m", "e", "t", "a", "d", "a", "t", "a">>,
      <<"l", "o", "a", "d", "e", "d", "M", "e", "t", "a", "d", "a", "t", "a">>>>,
    <<<<"l", "o", "a", "d", "s", "t", "a", "r", "t">>,
      <<"l", "o", "a", "d", "S", "t", "a", "r", "t">>>>,
    <<<<"r", "a", "t", "e", "c", "h", "a", "n", "g", "e">>,
      <<"r", "a", "t", "e", "C", "h", "a", "n", "g", "e">>>>,
    <<<<"t", "i", "m", "e", "u", "p", "d", "a", "t", "e">>,
      <<"t", "i", "m", "e", "U", "p", "d", "a", "t", "e">>>>,
    <<<<"v", "o", "l", "u", "m", "e", "c", "h", "a", "n", "g", "e">>,
      <<"v", "o", "l", "u", "m", "e", "C", "h", "a", "n", "g", "e">>>>}

\* nativeToReactEventMap[event] || event
mapNativeEventNames(event) ==
    IF \E e \in nativeToReactEventMap : e[1] = event
    THEN (CHOOSE e \in nativeToReactEventMap : e[1] = event)[2]
    ELSE event

\* 'on' + the capitalised mapped name: the handler prop React calls for the
\* DOM event.
propFromMappedEvent(event) ==
    LET mapped == mapNativeEventNames(event)
    IN <<"o", "n">> \o <<toUpperCase(mapped[1])>> \o Tail(mapped)

click == <<"c", "l", "i", "c", "k">>

\* The event names a test simulates: the DOM names of the table, the React
\* names they stand for, and click.
Events == {e[1] : e \in nativeToReactEventMap} \cup {e[2] : e \in nativeToReactEventMap}
          \cup {click}

\* The node has no handler prop.
NoProp == <<>>

\* The prop names a node can have a handler under, for a test that simulates
\* the event: the name the code derives, the name the table gives, or none.
HandlerProps(event) == {NoProp, propFromEvent(event), propFromMappedEvent(event)}

\* The arguments a test passes after the event name.
EventArgs == {"a", "b"}
ArgLists == UNION {[1..k -> EventArgs] : k \in 0..MaxArgs}

----------------------------------------------------------------------------
\* Props and state objects: a mapping of some keys to values.

Keys == {"id", "foo"}
Values == {"foo", "bar"}
Objects == UNION {[d -> Values] : d \in SUBSET Keys}

\* Object merging, as React.cloneElement merges the new props over the
\* element's and as setState merges the partial state: over wins.
merge(base, over) ==
    [k \in DOMAIN base \cup DOMAIN over |-> IF k \in DOMAIN over THEN over[k] ELSE base[k]]

EmptyObject == [k \in {} |-> "foo"]

\* The objects that set no other key than id.
IdObjects == {o \in Objects : DOMAIN o \subseteq {"id"}}

\* state(name): the names a test asks for; NoName is state().
NoName == "undefined"
Names == Keys \cup {NoName}

\* No function of Utils.js has been called.
NoPure == [op |-> "none"]

\* What the fields were when the last call began.
Was == [nodes |-> nodes, node |-> thisNode, length |-> thisLength, isRoot |-> isRoot,
        rootNode |-> rootNode, rootNodes |-> rootNodes, output |-> output,
        unrendered |-> unrendered, instance |-> instance]

NoWas == [nodes |-> <<>>, node |-> Undefined, length |-> 0, isRoot |-> FALSE,
          rootNode |-> Undefined, rootNodes |-> <<>>, output |-> Undefined,
          unrendered |-> EmptyObject,
          instance |-> [props |-> EmptyObject, state |-> EmptyObject]]

\* recvRoot: the receiver is the root wrapper; arg: the object given to
\* setProps or setState; event, args: simulate's arguments; handlerProp: the
\* prop the node has a handler under; calls: the argument lists the handler
\* was called with; rendered: the props of the elements given to
\* renderer.render; ret: what state() returned; was: the fields before.
NoTrace == [recvRoot |-> FALSE, arg |-> EmptyObject, name |-> NoName, event |-> <<>>,
            args |-> <<>>, handlerProp |-> NoProp, calls |-> <<>>, rendered |-> <<>>,
            ret |-> <<>>, was |-> NoWas]

----------------------------------------------------------------------------
\* ShallowWrapper.  An operation is a function of this.nodes (ns) and its
\* arguments to an outcome record: threw, wrapper (a wrapper is returned),
\* res (the returned wrapper's nodes), self (the returned wrapper is this),
\* fresh (the returned wrapper is a new root), cb (the nodes the callback of
\* single was called with), val (a boolean result: the predicate's value, the
\* prop being set, the handler having been called).

Outcome == [threw |-> FALSE, wrapper |-> TRUE, res |-> <<>>, self |-> FALSE,
            fresh |-> FALSE, cb |-> <<>>, val |-> FALSE]

Threw == [Outcome EXCEPT !.threw = TRUE, !.wrapper = FALSE]

\* this.node: nodes[0] of the array the wrapper was made from.
nodeOf(ns) == IF ns = <<>> THEN Undefined ELSE ns[1]

\* A single without its guard: fn is called with this.node whatever the length.
singleUnguarded(ns) == [threw |-> FALSE, arg |-> <<nodeOf(ns)>>]

\* single(fn): the guard; arg is the argument fn is called with.
single(ns) ==
    IF Len(ns) # 1 THEN [threw |-> TRUE, arg |-> <<>>]
    ELSE [threw |-> FALSE, arg |-> <<nodeOf(ns)>>]

\* wrap(array) makes the array the new wrapper's nodes; wrap(node) makes [node].
wrapNode(n) == <<n>>

\* fn is the mapping function as a table: fn[n] is what it returns when it
\* is called with wrap(n).
flatMap(ns, fn) ==
    [Outcome EXCEPT !.res = unique(flatten([i \in 1..Len(ns) |-> fn[ns[i]]]))]

findWhere(ns, predicate) ==
    flatMap(ns, [n \in NodeVals |-> treeFilter(n, predicate)])

\* find(selector): buildPredicate(selector), then findWhere.
find(ns, selector) == findWhere(ns, selector)

\* predicate is a table: predicate[n] is what it returns for wrap(n).
filterWhere(ns, predicate) ==
    [Outcome EXCEPT !.res = compact(SelectSeq(ns, LAMBDA n : predicate[n]))]

filter(ns, selector) == filterWhere(ns, [n \in NodeVals |-> n \in selector])

not(ns, selector) == filterWhere(ns, [n \in NodeVals |-> n \notin selector])

is(ns, selector) ==
    LET s == single(ns)
    IN IF s.threw THEN Threw
       ELSE [Outcome EXCEPT !.wrapper = FALSE, !.cb = s.arg,
                            !.val = (s.arg[1] \in selector)]

children(ns, hasSel, selector) ==
    LET allChildren == flatMap(ns, [n \in NodeVals |-> childrenOfNode(n)]).res
    IN IF hasSel THEN filter(allChildren, selector)
       ELSE [Outcome EXCEPT !.res = allChildren]

parents(ns, hasSel, selector) ==
    LET s == single(ns)
        p == parentsOfNode(s.arg[1], rootNode)
    IN IF s.threw THEN Threw
       ELSE IF p.threw THEN [Threw EXCEPT !.cb = s.arg]
       ELSE IF hasSel THEN [filter(p.nodes, selector) EXCEPT !.cb = s.arg]
       ELSE [Outcome EXCEPT !.res = p.nodes, !.cb = s.arg]

\* this.nodes[index], undefined outside the array.
nodeAt(ns, index) == IF index + 1 \in 1..Len(ns) THEN ns[index + 1] ELSE Undefined

get(ns, index) == [Outcome EXCEPT !.res = wrapNode(nodeAt(ns, index))]

first(ns) == get(ns, 0)

lastOf(ns) == get(ns, Len(ns) - 1)

\* flatMap(n => [n.parents().nodes[0]]): n.parents() is called on wrap(n).
parent(ns) ==
    IF \E i \in 1..Len(ns) : parents(wrapNode(ns[i]), FALSE, {}).threw THEN Threw
    ELSE flatMap(ns, [n \in NodeVals |-> <<nodeAt(parents(wrapNode(n), FALSE, {}).res, 0)>>])

closest(ns, selector) ==
    LET i == is(ns, selector)
        p == parents(ns, FALSE, {})
    IN IF i.threw THEN Threw
       ELSE IF i.val THEN [Outcome EXCEPT !.res = ns, !.self = TRUE, !.cb = i.cb]
       ELSE IF p.threw THEN [Threw EXCEPT !.cb = i.cb]
       ELSE [first(filter(p.res, selector).res) EXCEPT !.cb = i.cb]

----------------------------------------------------------------------------
\* The callback of single is getTextFromNode, propsOfNode: neither throws on
\* an undefined node.
text(ns) ==
    LET s == single(ns)
    IN IF s.threw THEN Threw ELSE [Outcome EXCEPT !.wrapper = FALSE, !.cb = s.arg]

props(ns) ==
    LET s == single(ns)
    IN IF s.threw THEN Threw ELSE [Outcome EXCEPT !.wrapper = FALSE, !.cb = s.arg]

\* this.props()[propName]; having is the set of nodes with that prop set.
prop(ns, having) ==
    LET p == props(ns)
    IN IF p.threw THEN Threw ELSE [p EXCEPT !.val = (p.cb[1] \in having)]

\* single(n => n.type): a TypeError on an undefined node.
type(ns) ==
    LET s == single(ns)
    IN IF s.threw THEN Threw
       ELSE IF s.arg[1] = Undefined THEN [Threw EXCEPT !.cb = s.arg]
       ELSE [Outcome EXCEPT !.wrapper = FALSE, !.cb = s.arg]

\* single(n => hasClassName(n, className)); classed is the set of nodes whose
\* className holds the name.
hasClass(ns, classed) ==
    LET s == single(ns)
    IN IF s.threw THEN Threw
       ELSE [Outcome EXCEPT !.wrapper = FALSE, !.cb = s.arg,
                            !.val = (s.arg[1] \in classed)]

\* single(n => new ShallowWrapper(n)): rendered is what the new renderer
\* returns for n; rendering undefined throws.
shallow(ns, rendered) ==
    LET s == single(ns)
    IN IF s.threw THEN Threw
       ELSE IF s.arg[1] = Undefined THEN [Threw EXCEPT !.cb = s.arg]
       ELSE [Outcome EXCEPT !.res = <<rendered>>, !.fresh = TRUE, !.cb = s.arg]

\* simulate(event, ...args): bound is the set of nodes with a handler prop for
\* the event; val tells that the handler was called.
simulate(ns, bound) ==
    LET handler == prop(ns, bound)
    IN IF handler.threw THEN Threw
       ELSE [Outcome EXCEPT !.res = ns, !.self = TRUE, !.cb = handler.cb,
                            !.val = handler.val]

\* An update that leaves the snapshot as it is.
updateKeepsSnapshot(rendered) == rootNode

\* update() on the root: single(() => { node = getRenderOutput(); nodes = [node] }).
update(rendered) == rendered

\* A constructor that sets length as for a root.
ShallowWrapperOfOne(ns) == [node |-> nodeOf(ns), nodes |-> ns, length |-> 1]

\* new ShallowWrapper(nodes, root) for an array: the fields of the new wrapper.
ShallowWrapper(ns) == [node |-> nodeOf(ns), nodes |-> ns, length |-> Len(ns)]

\* isEmpty() of the wrapper made of ns: this.length === 0
isEmpty(ns) == ShallowWrapper(ns).length = 0

\* A cloneElement that takes the new props alone.
cloneElementWithoutOwnProps(element, newProps) == newProps

\* React.cloneElement(element, props), an element being its props here.
cloneElement(element, newProps) == merge(element, newProps)

\* A simulate that calls the handler with the event name before the arguments.
handlerCallsWithEvent(event, args) == <<<<event>> \o args>>

\* handler(...args): the argument lists the handler is called with.
handlerCalls(event, args) == <<args>>

\* The guard of update, setProps, setState and state.
rootOnlyUnguarded(thisIsRoot) == FALSE

rootOnly(thisIsRoot) == ~thisIsRoot

\* state(name): _state[name] for a name, the whole state without.
stateOf(state, name) ==
    IF name = NoName THEN <<state>>
    ELSE IF name \in DOMAIN state THEN <<state[name]>>
    ELSE <<NoName>>

----------------------------------------------------------------------------
\* The calls a test makes on a wrapper it holds.  After a call it goes on with
\* the returned wrapper (Follow), with the receiver (Keep) or with the root
\* wrapper (TakeRoot).

Call(op, o, sel, hasSel, idx, fn) ==
    last' = [op |-> op, recv |-> nodes, sel |-> sel, hasSel |-> hasSel,
            idx |-> idx, fn |-> fn, threw |-> o.threw, wrapper |-> o.wrapper,
            res |-> o.res, self |-> o.self, fresh |-> o.fresh, cb |-> o.cb,
            val |-> o.val, before |-> rootNode, after |-> rootNode']

Read(op, o, sel, hasSel, idx, fn) ==
    /\ last.op = "none"
    /\ UNCHANGED <<kids, output, rootNode, nodes, isRoot>>
    /\ UNCHANGED <<rootNodes, thisNode, thisLength, unrendered, instance, trace, pure>>
    /\ Call(op, o, sel, hasSel, idx, fn)

Find == \E sel \in Selectors(nodes) : Read("find", find(nodes, sel), sel, TRUE, 0, NoFn)

Filter == \E sel \in Selectors(nodes) : Read("filter", filter(nodes, sel), sel, TRUE, 0, NoFn)

Not == \E sel \in Selectors(nodes) : Read("not", not(nodes, sel), sel, TRUE, 0, NoFn)

Is == \E sel \in Flags : Read("is", is(nodes, sel), sel, TRUE, 0, NoFn)

Children ==
    \/ Read("children", children(nodes, FALSE, {}), {}, FALSE, 0, NoFn)
    \/ \E sel \in Selectors(nodes) :
           Read("children", children(nodes, TRUE, sel), sel, TRUE, 0, NoFn)

Parents ==
    \/ Read("parents", parents(nodes, FALSE, {}), {}, FALSE, 0, NoFn)
    \/ \E sel \in Selectors(<<rootNode>> \o nodes) :
           Read("parents", parents(nodes, TRUE, sel), sel, TRUE, 0, NoFn)

Parent == Read("parent", parent(nodes), {}, FALSE, 0, NoFn)

Closest ==
    \E sel \in Selectors(<<rootNode>> \o nodes) :
        Read("closest", closest(nodes, sel), sel, TRUE, 0, NoFn)

\* The mapping function applied to the wrapper around n.
applyFn(fn, n) ==
    CASE fn.kind = "kids" -> children(wrapNode(n), FALSE, {}).res
      [] fn.kind = "twice" -> <<n, n>>
      [] OTHER -> fn.list

FlatMap ==
    \E fn \in FlatMapFns :
        Read("flatMap", flatMap(nodes, [n \in NodeVals |-> applyFn(fn, n)]), {}, FALSE, 0, fn)

Get == \E index \in -1..MaxKids : Read("get", get(nodes, index), {}, FALSE, index, NoFn)

First == Read("first", first(nodes), {}, FALSE, 0, NoFn)

Last == Read("last", lastOf(nodes), {}, FALSE, 0, NoFn)

Text == Read("text", text(nodes), {}, FALSE, 0, NoFn)

Props == Read("props", props(nodes), {}, FALSE, 0, NoFn)

Prop == \E having \in Flags : Read("prop", prop(nodes, having), having, TRUE, 0, NoFn)

Type == Read("type", type(nodes), {}, FALSE, 0, NoFn)

HasClass ==
    \E classed \in Flags :
        Read("hasClass", hasClass(nodes, classed), classed, TRUE, 0, NoFn)

Shallow ==
    \E rendered \in Outputs :
        Read("shallow", shallow(nodes, rendered), {}, FALSE, rendered, NoFn)

\* An update whose new array is shared with the wrappers made from the root.
RefreshEveryWrapper ==
    /\ rootNode' = update(output')
    /\ rootNodes' = <<rootNode'>>
    /\ nodes' = rootNodes'
    /\ thisNode' = rootNode'
    /\ UNCHANGED <<thisLength, isRoot>>

\* this.root.update(): the root takes the renderer's output as its node, in
\* a new array; the wrapper the caller holds changes when it is the root.
Refresh ==
    /\ rootNode' = update(output')
    /\ rootNodes' = <<rootNode'>>
    /\ nodes' = IF isRoot THEN rootNodes' ELSE nodes
    /\ thisNode' = IF isRoot THEN rootNode' ELSE thisNode
    /\ UNCHANGED <<thisLength, isRoot>>

NoRefresh == UNCHANGED <<rootNode, rootNodes, nodes, thisNode, thisLength, isRoot>>

\* The wrapper a call is made on: the one the caller holds, or the root.
Receivers == {"this", "root"}

OnRoot(recv) == recv = "root" \/ isRoot

\* this.nodes of the receiver.
NodesOf(recv) == IF recv = "root" THEN rootNodes ELSE nodes

\* The handler is the test's code: it can set the component's state and make
\* it render again.  Then this.root.update() refreshes the root.
SimulateOn(receivers, events, argLists, changes) ==
    \E recv \in receivers, event \in events, args \in argLists :
        \E change \in changes, rendered \in Outputs, handlerProp \in HandlerProps(event) :
            LET bound == IF handlerProp # NoProp /\ handlerProp = propFromEvent(event)
                         THEN Nodes ELSE {}
                o == simulate(NodesOf(recv), bound)
            IN /\ last.op = "none"
               /\ output' = IF o.val THEN rendered ELSE output
               /\ instance' = IF o.val THEN [instance EXCEPT !.state = merge(@, change)]
                              ELSE instance
               /\ IF o.val THEN Refresh ELSE NoRefresh
               /\ trace' = [NoTrace EXCEPT !.recvRoot = OnRoot(recv), !.event = event,
                                           !.args = args, !.handlerProp = handlerProp,
                                           !.calls = IF o.val THEN handlerCalls(event, args)
                                                     ELSE <<>>,
                                           !.was = Was]
               /\ UNCHANGED <<kids, unrendered, pure>>
               /\ Call("simulate", o, bound, TRUE, 0, NoFn)

Simulate == SimulateOn({"this"}, {click}, {<<>>}, {EmptyObject})

\* The test goes on with the wrapper the call returned.
Follow ==
    /\ last.op # "none"
    /\ last.wrapper
    /\ ~last.self
    /\ nodes' = ShallowWrapper(last.res).nodes
    /\ thisNode' = ShallowWrapper(last.res).node
    /\ thisLength' = ShallowWrapper(last.res).length
    /\ isRoot' = last.fresh
    /\ rootNode' = IF last.fresh THEN last.res[1] ELSE rootNode
    /\ rootNodes' = IF last.fresh THEN <<rootNode'>> ELSE rootNodes
    /\ output' = IF last.fresh THEN last.res[1] ELSE output
    /\ last' = NoCall
    /\ trace' = NoTrace
    /\ pure' = NoPure
    /\ UNCHANGED <<kids, unrendered, instance>>

\* The test goes on with the wrapper it called.
Keep ==
    /\ last.op # "none"
    /\ last' = NoCall
    /\ trace' = NoTrace
    /\ UNCHANGED <<kids, output, rootNode, nodes, isRoot>>
    /\ pure' = NoPure
    /\ UNCHANGED <<rootNodes, thisNode, thisLength, unrendered, instance>>

\* The test goes on with the root wrapper.
TakeRoot ==
    /\ last.op # "none"
    /\ nodes' = rootNodes
    /\ thisNode' = rootNode
    /\ thisLength' = 1
    /\ isRoot' = TRUE
    /\ last' = NoCall
    /\ trace' = NoTrace
    /\ pure' = NoPure
    /\ UNCHANGED <<kids, output, rootNode, rootNodes, unrendered, instance>>

\* new ShallowWrapper(element): root = this, the element is rendered, node =
\* the render output, nodes = [node], length = 1.
Constructed ==
    /\ output = 1
    /\ rootNode = output
    /\ rootNodes = <<rootNode>>
    /\ nodes = rootNodes
    /\ thisNode = rootNode
    /\ thisLength = 1
    /\ isRoot = TRUE
    /\ instance = [props |-> unrendered, state |-> EmptyObject]
    /\ last = NoCall
    /\ trace = NoTrace
    /\ pure = NoPure

\* shallow(element) in the tests of the queries: any tree, an element without
\* props.
Init ==
    /\ kids \in Trees
    /\ unrendered = EmptyObject
    /\ Constructed

Next ==
    \/ Find
    \/ Filter
    \/ Not
    \/ Is
    \/ Children
    \/ Parents
    \/ Parent
    \/ Closest
    \/ FlatMap
    \/ Get
    \/ First
    \/ Last
    \/ Text
    \/ Props
    \/ Prop
    \/ Type
    \/ HasClass
    \/ Shallow
    \/ Simulate
    \/ Follow
    \/ Keep
    \/ TakeRoot

Spec == Init /\ [][Next]_vars

----------------------------------------------------------------------------
\* The component's life cycle: setProps, setState, state, update, simulate.
\* The test holds the root wrapper and the wrapper it goes on with, and makes
\* a call on either.  The root's element is a component, whose render() is
\* the test's code: what it returns is any of the outputs.

\* A root-only call: it returns the root wrapper, or has thrown.
RootCall(op, ok) ==
    Call(op, IF ok THEN [Outcome EXCEPT !.res = rootNodes', !.self = TRUE] ELSE Threw,
         {}, FALSE, 0, NoFn)

\* renderer.render(React.cloneElement(this.unrendered, props)); this.update()
SetProps ==
    \E recv \in Receivers, newProps \in Objects, rendered \in Outputs :
        LET ok == ~rootOnly(OnRoot(recv)) /\ ~single(rootNodes).threw
        IN /\ last.op = "none"
           /\ output' = IF ok THEN rendered ELSE output
           /\ instance' = IF ok THEN [instance EXCEPT !.props = cloneElement(unrendered, newProps)]
                          ELSE instance
           /\ IF ok THEN Refresh ELSE NoRefresh
           /\ trace' = [NoTrace EXCEPT !.recvRoot = OnRoot(recv), !.arg = newProps,
                                       !.rendered = IF ok THEN <<cloneElement(unrendered, newProps)>>
                                                    ELSE <<>>,
                                       !.was = Was]
           /\ UNCHANGED <<kids, unrendered, pure>>
           /\ RootCall("setProps", ok)

\* this.instance().setState(state); this.update()
SetState ==
    \E recv \in Receivers, newState \in IdObjects, rendered \in Outputs :
        LET ok == ~rootOnly(OnRoot(recv)) /\ ~single(rootNodes).threw
        IN /\ last.op = "none"
           /\ output' = IF ok THEN rendered ELSE output
           /\ instance' = IF ok THEN [instance EXCEPT !.state = merge(@, newState)] ELSE instance
           /\ IF ok THEN Refresh ELSE NoRefresh
           /\ trace' = [NoTrace EXCEPT !.recvRoot = OnRoot(recv), !.arg = newState, !.was = Was]
           /\ UNCHANGED <<kids, unrendered, pure>>
           /\ RootCall("setState", ok)

\* state(name): this.single(() => this.instance().state), then [name].
State ==
    \E recv \in Receivers, name \in Names :
        LET ok == ~rootOnly(OnRoot(recv)) /\ ~single(rootNodes).threw
        IN /\ last.op = "none"
           /\ NoRefresh
           /\ trace' = [NoTrace EXCEPT !.recvRoot = OnRoot(recv), !.name = name,
                                       !.ret = IF ok THEN stateOf(instance.state, name)
                                               ELSE <<>>,
                                       !.was = Was]
           /\ UNCHANGED <<kids, output, unrendered, instance, pure>>
           /\ Call("state", IF ok THEN [Outcome EXCEPT !.wrapper = FALSE] ELSE Threw,
                   {}, FALSE, 0, NoFn)

Update ==
    \E recv \in Receivers :
        LET ok == ~rootOnly(OnRoot(recv)) /\ ~single(rootNodes).threw
        IN /\ last.op = "none"
           /\ UNCHANGED <<kids, output, unrendered, instance, pure>>
           /\ IF ok THEN Refresh ELSE NoRefresh
           /\ trace' = [NoTrace EXCEPT !.recvRoot = OnRoot(recv), !.was = Was]
           /\ RootCall("update", ok)

\* Something external updates the component's state: it renders again, and
\* no wrapper is told.
ExternalRender ==
    \E change \in IdObjects, rendered \in Outputs :
        /\ last.op = "none"
        /\ instance' = [instance EXCEPT !.state = merge(@, change)]
        /\ output' = rendered
        /\ NoRefresh
        /\ UNCHANGED <<kids, unrendered, last, trace, pure>>

SimulateArgs == SimulateOn(Receivers, {click}, ArgLists, IdObjects)

\* The trees of the life cycle's tests: the first output has two children,
\* which have none, and the second output has one.
LifeTrees ==
    {k \in Trees : /\ Len(k[1]) = MaxKids
                   /\ k[1][1] # k[1][MaxKids]
                   /\ \A i \in 1..MaxKids : k[k[1][i]] = <<>>
                   /\ Len(k[MaxOutputs]) = 1}

\* shallow(<Foo id="foo" />)
FooProps == [id |-> "foo"]

InitMut ==
    /\ kids \in LifeTrees
    /\ unrendered = FooProps
    /\ Constructed

NextMut ==
    \/ SetProps
    \/ SetState
    \/ State
    \/ Update
    \/ SimulateArgs
    \/ ExternalRender
    \/ Children
    \/ Follow
    \/ Keep
    \/ TakeRoot

SpecMut == InitMut /\ [][NextMut]_vars

----------------------------------------------------------------------------
\* Ancestors asked of a wrapper that was made before the root rendered again.

NextStale ==
    \/ SetProps
    \/ Children
    \/ Get
    \/ Parents
    \/ Parent
    \/ Closest
    \/ Follow
    \/ Keep
    \/ TakeRoot

SpecStale == InitMut /\ [][NextStale]_vars

----------------------------------------------------------------------------
\* simulate with the event names of the DOM and of React.

SimulateEvent == SimulateOn({"this"}, Events, {<<>>}, {EmptyObject})

InitEvent ==
    /\ kids \in LifeTrees
    /\ unrendered = EmptyObject
    /\ Constructed

NextEvent ==
    \/ SimulateEvent
    \/ Children
    \/ Follow
    \/ Keep
    \/ TakeRoot

SpecEvent == InitEvent /\ [][NextEvent]_vars

----------------------------------------------------------------------------
\* forEach and map.  The calls of fn are recorded in trace.calls, map's array
\* in trace.ret.

\* The callback called from the last node to the first.
iterateBackwards(ns) ==
    [i \in 1..Len(ns) |->
        [wrapper |-> ShallowWrapper(wrapNode(ns[Len(ns) + 1 - i])), isRoot |-> FALSE,
         index |-> Len(ns) - i]]

\* this.nodes.forEach((n, i) => fn.call(this, this.wrap(n), i)), and the same
\* with map: the calls of fn, each with a new wrapper that is no root and
\* the index.
iterate(ns) ==
    [i \in 1..Len(ns) |->
        [wrapper |-> ShallowWrapper(wrapNode(ns[i])), isRoot |-> FALSE, index |-> i - 1]]

\* The functions map is called with: w => w.node, (w, i) => i, w => w.length.
MapFns == {"node", "index", "length"}

applyMapFn(fn, call) ==
    CASE fn = "node" -> call.wrapper.node
      [] fn = "index" -> call.index
      [] OTHER -> call.wrapper.length

\* return this
forEach(ns) == [Outcome EXCEPT !.res = ns, !.self = TRUE]

\* The array returned is no wrapper.
map(ns) == [Outcome EXCEPT !.wrapper = FALSE]

Iterated(op, o, fn) ==
    /\ last.op = "none"
    /\ trace' = [NoTrace EXCEPT !.recvRoot = isRoot, !.name = fn,
                                !.calls = iterate(nodes),
                                !.ret = IF op = "map"
                                        THEN [i \in 1..Len(nodes) |->
                                                 applyMapFn(fn, iterate(nodes)[i])]
                                        ELSE <<>>,
                                !.was = Was]
    /\ UNCHANGED <<kids, output, rootNode, nodes, isRoot>>
    /\ UNCHANGED <<rootNodes, thisNode, thisLength, unrendered, instance, pure>>
    /\ Call(op, o, {}, FALSE, 0, NoFn)

ForEach == Iterated("forEach", forEach(nodes), NoName)

Map == \E fn \in MapFns : Iterated("map", map(nodes), fn)

NextIter ==
    \/ ForEach
    \/ Map
    \/ Children
    \/ Get
    \/ Follow
    \/ Keep
    \/ TakeRoot

SpecIter == InitEvent /\ [][NextIter]_vars

----------------------------------------------------------------------------
\* Utils.js: nodeEqual and childrenEqual, on node descriptions.  A value is a
\* record with its kind; an element, an array and a plain object carry a ref,
\* and two of them are the same object when they are the same record.  The
\* props of an element are its <<key, value>> pairs in the order of
\* Object.keys.

UndefinedValue == [kind |-> "undefined"]
NullValue == [kind |-> "null"]
NaNValue == [kind |-> "NaN"]
StringValue(chars) == [kind |-> "string", val |-> chars]
NumberValue(digits) == [kind |-> "number", val |-> digits]
ObjectValue(ref, content) == [kind |-> "object", ref |-> ref, val |-> content]
ArrayValue(ref, items) == [kind |-> "array", ref |-> ref, items |-> items]
Element(ref, tag, pairs) == [kind |-> "element", ref |-> ref, type |-> tag, props |-> pairs]

\* What a function returns, or that it threw a TypeError.
True == [threw |-> FALSE, val |-> TRUE]
False == [threw |-> FALSE, val |-> FALSE]
TypeError == [threw |-> TRUE, val |-> FALSE]

\* a === b: NaN is not itself; strings and numbers by value; objects by
\* identity.
same(a, b) == a.kind # "NaN" /\ a = b

\* !a
falsy(a) ==
    \/ a.kind \in {"undefined", "null", "NaN"}
    \/ a.kind = "string" /\ a.val = <<>>
    \/ a.kind = "number" /\ a.val = <<"0">>
    \/ a.kind = "boolean" /\ ~a.val

\* typeof a
typeOf(a) ==
    CASE a.kind \in {"null", "object", "array", "element"} -> "object"
      [] a.kind \in {"number", "NaN"} -> "number"
      [] OTHER -> a.kind

\* a.type taken to be the typeof of a value that is no element.
typeOfNodeByKind(a) == IF a.kind = "element" THEN a.type ELSE typeOf(a)

\* a.type of a truthy value: undefined but for an element.
typeOfNode(a) == IF a.kind = "element" THEN a.type ELSE "undefined"

\* propsOfNode(node): (node && node.props) || {}
propsOfNode(a) == IF a.kind = "element" THEN a.props ELSE <<>>

\* prop in right
hasKey(pairs, key) == \E i \in 1..Len(pairs) : pairs[i][1] = key

\* right[prop]
valueAt(pairs, key) == pairs[CHOOSE i \in 1..Len(pairs) : pairs[i][1] = key][2]

\* Objects compared by identity only.
isEqualByIdentity(a, b) == a = b

\* isEqual of underscore on two values of type object: deep equality.
isEqual(a, b) ==
    IF a.kind = "object" /\ b.kind = "object" THEN a.val = b.val ELSE a = b

\* a.length: a number for an array and a string, undefined for other values,
\* a TypeError for null and undefined.
lengthOf(a) ==
    CASE a.kind = "array" -> [threw |-> FALSE, defined |-> TRUE, len |-> Len(a.items)]
      [] a.kind = "string" -> [threw |-> FALSE, defined |-> TRUE, len |-> Len(a.val)]
      [] a.kind \in {"undefined", "null"} -> [threw |-> TRUE, defined |-> FALSE, len |-> 0]
      [] OTHER -> [threw |-> FALSE, defined |-> FALSE, len |-> 0]

\* a[i] of an array or a string (i from 1 here).
itemAt(a, i) == IF a.kind = "array" THEN a.items[i] ELSE StringValue(<<a.val[i]>>)

RECURSIVE nodeEqual(_, _)
RECURSIVE childrenEqual(_, _)

childrenEqual(a, b) ==
    IF same(a, b) THEN True
    ELSE IF a.kind # "array" /\ b.kind # "array" THEN nodeEqual(a, b)
    ELSE IF falsy(a) /\ falsy(b) THEN True
    ELSE IF lengthOf(a).threw \/ lengthOf(b).threw THEN TypeError
    ELSE IF lengthOf(a) # lengthOf(b) THEN False
    ELSE IF lengthOf(a).len = 0 /\ lengthOf(b).len = 0 THEN True
    ELSE LET RECURSIVE Loop(_)
             Loop(i) ==
                 IF i > lengthOf(a).len THEN True
                 ELSE LET e == nodeEqual(itemAt(a, i), itemAt(b, i))
                      IN IF e.threw \/ ~e.val THEN e ELSE Loop(i + 1)
         IN Loop(1)

nodeEqual(a, b) ==
    IF same(a, b) THEN True
    ELSE IF falsy(a) \/ falsy(b) THEN False
    ELSE IF typeOfNode(a) # typeOfNode(b) THEN False
    ELSE LET left == propsOfNode(a)
             right == propsOfNode(b)
             RECURSIVE Loop(_)
             Loop(i) ==
                 IF i > Len(left) THEN (IF Len(left) = Len(right) THEN True ELSE False)
                 ELSE LET key == left[i][1]
                          mine == left[i][2]
                      IN IF ~hasKey(right, key) THEN False
                         ELSE IF key = "children"
                         THEN LET c == childrenEqual(mine, valueAt(right, key))
                              IN IF c.threw \/ ~c.val THEN c ELSE Loop(i + 1)
                         ELSE IF same(valueAt(right, key), mine) THEN Loop(i + 1)
                         ELSE IF /\ typeOf(valueAt(right, key)) = typeOf(mine)
                                 /\ typeOf(mine) = "object"
                         THEN (IF isEqual(mine, valueAt(right, key)) THEN Loop(i + 1) ELSE False)
                         ELSE False
         IN Loop(1)

\* The node descriptions of the equality tests.
Refs == 1..MaxRefs
Leaves ==
    {UndefinedValue, NullValue, NaNValue, StringValue(<<>>), StringValue(<<"a">>),
     StringValue(<<"b">>), StringValue(<<"a", "b">>), NumberValue(<<"0">>),
     NumberValue(<<"1">>), NumberValue(<<"2">>)}

\* <a />, <b />: elements without props.
BareElements == {Element(r, t, <<>>) : r \in Refs, t \in {"a", "b"}}

ChildNodes == {StringValue(<<"a">>)} \cup {Element(r, "a", <<>>) : r \in Refs}

\* The values of props.children: null, one node, a string, an array.
ChildrenValues ==
    {NullValue, StringValue(<<"a", "b">>)} \cup ChildNodes
    \cup {ArrayValue(1, items) : items \in UNION {[1..k -> ChildNodes] : k \in 0..MaxKids}}

\* The values of the id prop: strings, and plain objects that are deeply
\* equal or not.
IdValues == {StringValue(<<"x">>), StringValue(<<"y">>)}
ObjectValues == {ObjectValue(r, "v") : r \in Refs} \cup {ObjectValue(1, "w"), NullValue}

PropLists ==
    {<<>>}
    \cup {<<<<"id", v>>>> : v \in IdValues \cup ObjectValues}
    \cup {<<<<"children", c>>>> : c \in ChildrenValues}
    \cup {<<<<"id", v>>, <<"children", c>>>> : v \in IdValues, c \in ChildrenValues}
    \cup {<<<<"children", c>>, <<"id", v>>>> : v \in IdValues, c \in ChildrenValues}

Divs == {Element(r, "div", pairs) : r \in Refs, pairs \in PropLists}

NodeDescriptions == Leaves \cup BareElements \cup Divs

\* The arguments of a call and its result both ways round.
Compared(op, a, b, ab, ba, aa) ==
    [op |-> op, a |-> a, b |-> b, ab |-> ab, ba |-> ba, aa |-> aa]

NodeEqual ==
    /\ pure.op = "nodeEqual?"
    /\ pure' = Compared("nodeEqual", pure.a, pure.b, nodeEqual(pure.a, pure.b),
                        nodeEqual(pure.b, pure.a), nodeEqual(pure.a, pure.a))
    /\ UNCHANGED <<kids, output, rootNode, nodes, isRoot, last>>
    /\ UNCHANGED <<rootNodes, thisNode, thisLength, unrendered, instance, trace>>

ChildrenEqual ==
    /\ pure.op = "childrenEqual?"
    /\ pure' = Compared("childrenEqual", pure.a, pure.b, childrenEqual(pure.a, pure.b),
                        childrenEqual(pure.b, pure.a), childrenEqual(pure.a, pure.a))
    /\ UNCHANGED <<kids, output, rootNode, nodes, isRoot, last>>
    /\ UNCHANGED <<rootNodes, thisNode, thisLength, unrendered, instance, trace>>

\* No wrapper is in play: a root over an element without children.
NoWrapper ==
    /\ kids = [n \in Nodes |-> <<>>]
    /\ output = 1
    /\ rootNode = output
    /\ rootNodes = <<rootNode>>
    /\ nodes = rootNodes
    /\ thisNode = rootNode
    /\ thisLength = 1
    /\ isRoot = TRUE
    /\ unrendered = EmptyObject
    /\ instance = [props |-> unrendered, state |-> EmptyObject]
    /\ last = NoCall
    /\ trace = NoTrace

\* childrenOfNode(node): the children prop as a list; null and undefined
\* give none, an array its items, another value itself.
childrenOfDescription(a) ==
    IF ~hasKey(propsOfNode(a), "children") THEN <<>>
    ELSE LET c == valueAt(propsOfNode(a), "children")
         IN CASE c.kind \in {"null", "undefined"} -> <<>>
              [] c.kind = "array" -> c.items
              [] OTHER -> <<c>>

\* treeForEach(tree, fn): the nodes fn is called with, in order.
RECURSIVE descriptionsOf(_)
descriptionsOf(tree) ==
    <<tree>> \o flatten([i \in 1..Len(childrenOfDescription(tree)) |->
                            descriptionsOf(childrenOfDescription(tree)[i])])

\* contains(node) on the root wrapper: findWhere(other => nodeEqual(node,
\* other)).length > 0; the predicate is called with every node of the tree.
contains(node, tree) ==
    LET others == descriptionsOf(tree)
    IN IF \E i \in 1..Len(others) : nodeEqual(node, others[i]).threw THEN TypeError
       ELSE IF \E i \in 1..Len(others) : nodeEqual(node, others[i]) = True THEN True
       ELSE False

Contains ==
    /\ pure.op = "contains?"
    /\ pure' = [op |-> "contains", node |-> pure.node, tree |-> pure.tree,
                found |-> contains(pure.node, pure.tree)]
    /\ UNCHANGED <<kids, output, rootNode, nodes, isRoot, last>>
    /\ UNCHANGED <<rootNodes, thisNode, thisLength, unrendered, instance, trace>>

InitEq ==
    /\ NoWrapper
    /\ \/ \E a, b \in NodeDescriptions :
              pure = [op |-> "nodeEqual?", a |-> a, b |-> b]
       \/ \E a, b \in ChildrenValues \cup {UndefinedValue} :
              pure = [op |-> "childrenEqual?", a |-> a, b |-> b]
       \/ \E node \in {d \in Divs : d.ref = MaxRefs}, tree \in {d \in Divs : d.ref = 1} :
              pure = [op |-> "contains?", node |-> node, tree |-> tree]

NextEq ==
    \/ NodeEqual
    \/ ChildrenEqual
    \/ Contains

SpecEq == InitEq /\ [][NextEq]_vars

----------------------------------------------------------------------------
\* Selectors as a caller passes them: a string (its characters), a function
\* (a component constructor), or a value of another type.

MaxSelector == 3

\* Some of the characters \s of a regular expression matches.
Whitespace == {" ", "\t", "\n"}

\* The line terminators: the characters . does not match.
LineTerminators == {"\n", "\r"}

\* The characters of the selectors: a letter, the marks of a class, an id
\* and a prop, and the characters of a complex selector.
SelectorChars == {"a", ".", "#", "[", "]", " ", ">", ":", "~"}

SelectorStrings == UNION {[1..k -> SelectorChars] : k \in 0..MaxSelector}

FunctionValue(ref) == [kind |-> "function", ref |-> ref]
BooleanValue(b) == [kind |-> "boolean", val |-> b]

\* The selectors that are neither a string nor a function.
OtherSelectors ==
    {UndefinedValue, NullValue, NumberValue(<<"0">>), NumberValue(<<"1">>),
     BooleanValue(FALSE), BooleanValue(TRUE), ObjectValue(1, EmptyObject)}

\* '[a]', '[a=a]' and 'a[a]': a prop, a prop with a value, a tag with a prop.
BracketSelectors ==
    {<<"[", "a", "]">>, <<"[", "a", "=", "a", "]">>, <<"a", "[", "a", "]">>}

SelectorInputs ==
    {StringValue(chars) : chars \in SelectorStrings \cup BracketSelectors}
        \cup {FunctionValue(1)} \cup OtherSelectors

\* [a-z] under the flag i
isLetter(c) == \E i \in 1..Len(LowerCase) : c = LowerCase[i] \/ c = UpperCase[i]

\* !/[~\s>]/.test(selector): the colon is let through.
isSimpleSelectorWithColons(selector) ==
    ~\E i \in 1..Len(selector) : selector[i] \in {"~", ">"} \cup Whitespace

\* !/[~\s:>]/.test(selector)
isSimpleSelector(selector) ==
    ~\E i \in 1..Len(selector) : selector[i] \in {"~", ":", ">"} \cup Whitespace

\* \[.*\] matches at i: a [ at i, and a ] after it on the same line.
bracketsAt(selector, i) ==
    /\ i \in 1..Len(selector)
    /\ selector[i] = "["
    /\ \E j \in (i + 1)..Len(selector) :
           /\ selector[j] = "]"
           /\ \A k \in (i + 1)..(j - 1) : selector[k] \notin LineTerminators

\* /([a-z]\.[a-z]|[a-z]\[.*\])/i.test(selector)
isCompoundSelector(selector) ==
    \E i \in 1..Len(selector) :
        /\ isLetter(selector[i])
        /\ \/ /\ i + 2 <= Len(selector)
              /\ selector[i + 1] = "."
              /\ isLetter(selector[i + 2])
           \/ bracketsAt(selector, i + 1)

\* selector.split(/(?=\.|\[.*\])/): a cut before every . and every [...]
\* but at the start of the string.
splitSelector(selector) ==
    LET starts == {1} \cup {i \in 2..Len(selector) :
                                selector[i] = "." \/ bracketsAt(selector, i)}
        nth(k) == CHOOSE i \in starts : Cardinality({j \in starts : j < i}) = k - 1
        n == Cardinality(starts)
    IN [k \in 1..n |->
           SubSeq(selector, nth(k), IF k = n THEN Len(selector) ELSE nth(k + 1) - 1)]

\* An error message: its text, and the selectors quoted in it.
NoMessage == [text |-> "", quoted |-> <<>>]

\* What compiling a selector gives: an error raised, or a predicate (pred
\* describes it).
NoPredicate == [kind |-> "none"]

\* new TypeError(`Enzyme received a complex CSS selector ('${selector}') ...`)
selectorError(selector) ==
    [threw |-> TRUE, error |-> "TypeError", pred |-> NoPredicate,
     message |-> [text |-> "Enzyme received a complex CSS selector that it does not currently support",
                  quoted |-> <<selector>>]]

\* new TypeError("Expecting a string or Component Constructor")
expectingError ==
    [threw |-> TRUE, error |-> "TypeError", pred |-> NoPredicate,
     message |-> [text |-> "Expecting a string or Component Constructor",
                  quoted |-> <<>>]]

\* return node => ...
predicateOf(pred) ==
    [threw |-> FALSE, error |-> "none", pred |-> pred, message |-> NoMessage]

\* AND(fns): the map over the fragments raises what the first fragment
\* that fails raises.
AND(fns) ==
    IF \E i \in 1..Len(fns) : fns[i].threw
    THEN fns[CHOOSE i \in 1..Len(fns) :
                 fns[i].threw /\ \A j \in 1..(i - 1) : ~fns[j].threw]
    ELSE predicateOf([kind |-> "and", parts |-> [i \in 1..Len(fns) |-> fns[i].pred]])

RECURSIVE buildPredicate(_)

buildPredicate(selector) ==
    CASE typeOf(selector) = "function" ->
             predicateOf([kind |-> "constructor", arg |-> selector.ref])
      [] typeOf(selector) = "string" ->
             IF ~isSimpleSelector(selector.val) THEN selectorError(selector.val)
             ELSE IF isCompoundSelector(selector.val)
             THEN AND([i \in 1..Len(splitSelector(selector.val)) |->
                          buildPredicate(StringValue(splitSelector(selector.val)[i]))])
             ELSE IF selector.val # <<>> /\ selector.val[1] = "."
             THEN predicateOf([kind |-> "class", arg |-> Tail(selector.val)])
             ELSE IF selector.val # <<>> /\ selector.val[1] = "#"
             THEN predicateOf([kind |-> "id", arg |-> Tail(selector.val)])
             ELSE predicateOf([kind |-> "type", arg |-> selector.val])
      [] OTHER -> expectingError

\* new Error(`This method is only meant to be run on single node. ...`)
singleError ==
    [text |-> "This method is only meant to be run on single node.", quoted |-> <<>>]

\* pathToNode(...).reverse() of null
reverseError == [text |-> "Cannot read property 'reverse' of null", quoted |-> <<>>]

\* A call with a selector: what it returns or that it threw (o), the error
\* raised and its message, and the nodes the call had looked at when it was
\* raised.
Raised(c, examined) ==
    [o |-> Threw, error |-> c.error, message |-> c.message, examined |-> examined]

Returned(o) == [o |-> o, error |-> "none", message |-> NoMessage, examined |-> {}]

\* The call failed after the selector was compiled: single raised its Error
\* (its callback was not called), or the path of the node was null.
Failed(o, examined) ==
    IF o.cb = <<>>
    THEN [o |-> o, error |-> "Error", message |-> singleError, examined |-> examined]
    ELSE [o |-> o, error |-> "TypeError", message |-> reverseError, examined |-> examined]

\* extension is the set of nodes the compiled predicate holds of.
findBy(ns, selector, extension) ==
    LET predicate == buildPredicate(selector)
    IN IF predicate.threw THEN Raised(predicate, {})
       ELSE Returned(find(ns, extension))

filterBy(ns, selector, extension) ==
    LET predicate == buildPredicate(selector)
    IN IF predicate.threw THEN Raised(predicate, {})
       ELSE Returned(filter(ns, extension))

notBy(ns, selector, extension) ==
    LET predicate == buildPredicate(selector)
    IN IF predicate.threw THEN Raised(predicate, {})
       ELSE Returned(not(ns, extension))

isBy(ns, selector, extension) ==
    LET predicate == buildPredicate(selector)
        o == is(ns, extension)
    IN IF predicate.threw THEN Raised(predicate, {})
       ELSE IF o.threw THEN Failed(o, {})
       ELSE Returned(o)

\* allChildren is computed first; selector ? allChildren.filter(selector)
\* : allChildren
childrenBy(ns, selector, extension) ==
    LET allChildren == children(ns, FALSE, {})
        predicate == buildPredicate(selector)
    IN IF falsy(selector) THEN Returned(allChildren)
       ELSE IF predicate.threw THEN Raised(predicate, Range(ns))
       ELSE Returned(children(ns, TRUE, extension))

\* allParents is computed first, under single; selector ?
\* allParents.filter(selector) : allParents
parentsBy(ns, selector, extension) ==
    LET allParents == parents(ns, FALSE, {})
        predicate == buildPredicate(selector)
    IN IF allParents.threw THEN Failed(allParents, Range(allParents.cb))
       ELSE IF falsy(selector) THEN Returned(allParents)
       ELSE IF predicate.threw
       THEN Raised(predicate, Range(allParents.cb) \cup Range(allParents.res))
       ELSE Returned(parents(ns, TRUE, extension))

\* this.is(selector) comes first.
closestBy(ns, selector, extension) ==
    LET predicate == buildPredicate(selector)
        o == closest(ns, extension)
    IN IF predicate.threw THEN Raised(predicate, {})
       ELSE IF o.threw THEN Failed(o, Range(o.cb))
       ELSE Returned(o)

\* buildPredicate called on its own: it returns no wrapper.
compiled(selector) ==
    LET predicate == buildPredicate(selector)
    IN IF predicate.threw THEN Raised(predicate, {})
       ELSE Returned([Outcome EXCEPT !.wrapper = FALSE])

\* The sets of nodes the compiled selector can hold of, among the elements
\* of ns: none is asked for when compiling raises.
Extensions(selector, ns) ==
    IF buildPredicate(selector).threw THEN {{}} ELSE Selectors(ns)

\* A call with the selector as it was passed.
BySelector(op, selector, extension, r) ==
    /\ UNCHANGED <<kids, output, rootNode, nodes, isRoot>>
    /\ UNCHANGED <<rootNodes, thisNode, thisLength, unrendered, instance, trace>>
    /\ pure' = [op |-> op, selector |-> selector, error |-> r.error,
                message |-> r.message, examined |-> r.examined]
    /\ Call(op, r.o, extension, ~falsy(selector), 0, NoFn)

BuildPredicate ==
    /\ last.op = "none"
    /\ \E selector \in SelectorInputs :
           BySelector("buildPredicate", selector, {}, compiled(selector))

FindBy ==
    /\ last.op = "none"
    /\ \E selector \in SelectorInputs :
           \E extension \in Extensions(selector, nodes) :
               BySelector("find", selector, extension,
                          findBy(nodes, selector, extension))

FilterBy ==
    /\ last.op = "none"
    /\ \E selector \in SelectorInputs :
           \E extension \in Extensions(selector, nodes) :
               BySelector("filter", selector, extension,
                          filterBy(nodes, selector, extension))

NotBy ==
    /\ last.op = "none"
    /\ \E selector \in SelectorInputs :
           \E extension \in Extensions(selector, nodes) :
               BySelector("not", selector, extension,
                          notBy(nodes, selector, extension))

IsBy ==
    /\ last.op = "none"
    /\ \E selector \in SelectorInputs :
           \E extension \in Extensions(selector, nodes) :
               BySelector("is", selector, extension,
                          isBy(nodes, selector, extension))

ChildrenBy ==
    /\ last.op = "none"
    /\ \E selector \in SelectorInputs :
           \E extension \in Extensions(selector, nodes) :
               BySelector("children", selector, extension,
                          childrenBy(nodes, selector, extension))

ParentsBy ==
    /\ last.op = "none"
    /\ \E selector \in SelectorInputs :
           \E extension \in Extensions(selector, <<rootNode>> \o nodes) :
               BySelector("parents", selector, extension,
                          parentsBy(nodes, selector, extension))

ClosestBy ==
    /\ last.op = "none"
    /\ \E selector \in SelectorInputs :
           \E extension \in Extensions(selector, <<rootNode>> \o nodes) :
               BySelector("closest", selector, extension,
                          closestBy(nodes, selector, extension))

\* shallow(<div><input className="foo" /><input /></div>): a root with
\* children.
InitSel ==
    /\ kids \in LifeTrees
    /\ unrendered = EmptyObject
    /\ Constructed

NextSel ==
    \/ BuildPredicate
    \/ FindBy
    \/ FilterBy
    \/ NotBy
    \/ IsBy
    \/ ChildrenBy
    \/ ParentsBy
    \/ ClosestBy
    \/ Get
    \/ Follow
    \/ Keep
    \/ TakeRoot

SpecSel == InitSel /\ [][NextSel]_vars

----------------------------------------------------------------------------
\* The predicates a selector compiles to, applied to a rendered unit: an
\* element with its type (a DOM tag, or a component with its name and maybe
\* a displayName) and its className and id props (<<>> when the prop is not
\* set, <<value>> when it is).  The mounted instance of the unit is a DOM
\* component for a tag and a composite component otherwise.

MaxName == 1
MaxFragments == 2
MaxTokens == 2
MaxClassName == 3

\* The characters of the class and id names: letters, a digit, '-' and '_'.
NameChars == {"a", "b", "1", "-", "_"}

FragmentNames == UNION {[1..k -> NameChars] : k \in 1..MaxName}

\* The tokens joined by single spaces.
RECURSIVE joined(_)
joined(tokens) ==
    IF tokens = <<>> THEN <<>>
    ELSE IF Len(tokens) = 1 THEN tokens[1]
    ELSE tokens[1] \o <<" ">> \o joined(Tail(tokens))

DOMElement(tag, className, id) ==
    [type |-> [kind |-> "tag", name |-> tag], className |-> className, id |-> id]

ComponentElement(ref, name, displayName, className, id) ==
    [type |-> [kind |-> "component", ref |-> ref, name |-> name,
               displayName |-> displayName],
     className |-> className, id |-> id]

\* haystack.indexOf(needle) > -1
includes(haystack, needle) ==
    \E i \in 0..(Len(haystack) - Len(needle)) :
        SubSeq(haystack, i + 1, i + Len(needle)) = needle

\* props.className || ''
classesOf(node) == IF node.className = <<>> THEN <<>> ELSE node.className[1]

\* classes.indexOf(className) > -1: the spaces around are not added.
hasClassNameUnpadded(node, className) == includes(classesOf(node), className)

\* (' ' + classes + ' ').indexOf(' ' + className + ' ') > -1
hasClassName(node, className) ==
    includes(<<" ">> \o classesOf(node) \o <<" ">>, <<" ">> \o className \o <<" ">>)

\* maybeId === id
nodeHasId(node, id) == node.id = <<id>>

nodeHasType(node, nodeType) ==
    IF nodeType = <<>> THEN FALSE
    ELSE IF node.type.kind = "tag" THEN node.type.name = nodeType
    ELSE node.type.name = nodeType \/ node.type.displayName = <<nodeType>>

\* The predicate buildPredicate returned, called with the element.
RECURSIVE nodePredicate(_, _)
nodePredicate(pred, node) ==
    CASE pred.kind = "constructor" ->
             node.type.kind = "component" /\ node.type.ref = pred.arg
      [] pred.kind = "class" -> hasClassName(node, pred.arg)
      [] pred.kind = "id" -> nodeHasId(node, pred.arg)
      [] pred.kind = "type" -> nodeHasType(node, pred.arg)
      [] OTHER -> \A i \in 1..Len(pred.parts) : nodePredicate(pred.parts[i], node)

isDOMComponent(inst) == inst.type.kind = "tag"

\* String.prototype.toUpperCase
upperCased(chars) == [i \in 1..Len(chars) |-> toUpperCase(chars[i])]

\* inst.tagName of a DOM component: the tag in upper case.
tagName(inst) == upperCased(inst.type.name)

instHasClassName(inst, className) ==
    /\ isDOMComponent(inst)
    /\ includes(<<" ">> \o classesOf(inst) \o <<" ">>, <<" ">> \o className \o <<" ">>)

\* findDOMNode(inst).id || ''
instHasId(inst, id) ==
    /\ isDOMComponent(inst)
    /\ (IF inst.id = <<>> THEN <<>> ELSE inst.id[1]) = id

\* typeof type === 'string'
instHasType(inst, instType) ==
    /\ isDOMComponent(inst)
    /\ upperCased(tagName(inst)) = upperCased(instType)

\* isCompositeComponentWithType(inst, type)
instHasConstructor(inst, ref) == ~isDOMComponent(inst) /\ inst.type.ref = ref

\* buildInstPredicate compiles as buildPredicate does, line by line; the
\* predicates it returns call instHasType, instHasClassName and instHasId.
buildInstPredicate(selector) == buildPredicate(selector)

\* The predicate buildInstPredicate returned, called with the instance.
RECURSIVE instPredicate(_, _)
instPredicate(pred, inst) ==
    CASE pred.kind = "constructor" -> instHasConstructor(inst, pred.arg)
      [] pred.kind = "class" -> instHasClassName(inst, pred.arg)
      [] pred.kind = "id" -> instHasId(inst, pred.arg)
      [] pred.kind = "type" -> instHasType(inst, pred.arg)
      [] OTHER -> \A i \in 1..Len(pred.parts) : instPredicate(pred.parts[i], inst)

\* What compiling the selector and calling the predicate with the unit
\* gives.
shallowMatch(selector, node) ==
    LET predicate == buildPredicate(selector)
    IN IF predicate.threw THEN TypeError
       ELSE IF nodePredicate(predicate.pred, node) THEN True ELSE False

mountedMatch(selector, inst) ==
    LET predicate == buildInstPredicate(selector)
    IN IF predicate.threw THEN TypeError
       ELSE IF instPredicate(predicate.pred, inst) THEN True ELSE False

\* A fragment of a compound selector: '.name' or '#name'.
Fragments == {<<mark>> \o name : mark \in {".", "#"}, name \in FragmentNames}

FragmentLists == UNION {[1..k -> Fragments] : k \in 0..MaxFragments}

\* The tag a compound selector begins with, if any.
TagNames == {<<>>, <<"a">>}

RECURSIVE concatenated(_)
concatenated(fragments) ==
    IF fragments = <<>> THEN <<>> ELSE fragments[1] \o concatenated(Tail(fragments))

\* className props of up to MaxTokens names.
TokenLists == UNION {[1..k -> FragmentNames] : k \in 1..MaxTokens}

ClassNameProps == {<<>>} \cup {<<joined(tokens)>> : tokens \in TokenLists}

IdProps == {<<>>, <<<<"a">>>>, <<<<"1">>>>}

CompoundUnits ==
    {DOMElement(<<"a">>, className, id) : className \in ClassNameProps, id \in IdProps}
        \cup {ComponentElement(1, <<"a">>, <<>>, className, id) :
                  className \in ClassNameProps, id \in IdProps}

\* The selectors and the units the two compilers are compared on: tags in
\* either case, a component called A, with or without a displayName.
AgreeChars == {"a", "A", ".", "#"}

AgreeSelectors ==
    {StringValue(chars) : chars \in UNION {[1..k -> AgreeChars] : k \in 0..MaxFragments}}
        \cup {FunctionValue(1), FunctionValue(MaxRefs)}

AgreeProps == {<<>>, <<<<"a">>>>, <<<<"A">>>>}

AgreeUnits ==
    {DOMElement(<<"a">>, className, id) : className \in AgreeProps, id \in AgreeProps}
        \cup {ComponentElement(1, <<"A">>, displayName, className, id) :
                  displayName \in AgreeProps, className \in AgreeProps, id \in AgreeProps}

\* The class names hasClass is asked for, and the className props.
ClassChars == {"a", "b", "A", " "}

ClassQueries == UNION {[1..k -> ClassChars] : k \in 0..MaxClassName}

ClassUnits ==
    {DOMElement(<<"a">>, <<>>, <<>>)}
        \cup {DOMElement(<<"a">>, <<chars>>, <<>>) :
                  chars \in UNION {[1..k -> ClassChars] : k \in 0..MaxClassName}}

PredicateFrame ==
    /\ UNCHANGED <<kids, output, rootNode, nodes, isRoot, last>>
    /\ UNCHANGED <<rootNodes, thisNode, thisLength, unrendered, instance, trace>>

\* buildPredicate(tag + fragments)(node), beside the predicate of each
\* fragment on its own, and the fragments in the reverse order.
CompoundMatch ==
    /\ pure.op = "compound?"
    /\ pure' = [op |-> "compound", tag |-> pure.tag, fragments |-> pure.fragments,
                node |-> pure.node,
                selector |-> pure.tag \o concatenated(pure.fragments),
                whole |-> shallowMatch(StringValue(pure.tag \o concatenated(pure.fragments)),
                                       pure.node),
                reversed |-> shallowMatch(StringValue(pure.tag
                                                         \o concatenated(Reverse(pure.fragments))),
                                          pure.node),
                tagAlone |-> shallowMatch(StringValue(pure.tag), pure.node),
                each |-> [i \in 1..Len(pure.fragments) |->
                             shallowMatch(StringValue(pure.fragments[i]), pure.node)]]
    /\ PredicateFrame

\* buildPredicate(selector)(element) and buildInstPredicate(selector)(inst)
Agree ==
    /\ pure.op = "agree?"
    /\ pure' = [op |-> "agree", selector |-> pure.selector, node |-> pure.node,
                shallow |-> shallowMatch(pure.selector, pure.node),
                mounted |-> mountedMatch(pure.selector, pure.node)]
    /\ PredicateFrame

\* hasClassName(node, className), as hasClass and a '.name' selector call it.
HasClassName ==
    /\ pure.op = "hasClassName?"
    /\ pure' = [op |-> "hasClassName", className |-> pure.className, node |-> pure.node,
                holds |-> hasClassName(pure.node, pure.className)]
    /\ PredicateFrame

InitPred ==
    /\ NoWrapper
    /\ \/ \E tag \in TagNames, fragments \in FragmentLists, node \in CompoundUnits :
              pure = [op |-> "compound?", tag |-> tag, fragments |-> fragments,
                      node |-> node]
       \/ \E selector \in AgreeSelectors, node \in AgreeUnits :
              pure = [op |-> "agree?", selector |-> selector, node |-> node]
       \/ \E className \in ClassQueries, node \in ClassUnits :
              pure = [op |-> "hasClassName?", className |-> className, node |-> node]

NextPred ==
    \/ CompoundMatch
    \/ Agree
    \/ HasClassName

SpecPred == InitPred /\ [][NextPred]_vars

----------------------------------------------------------------------------
\* withSetStateAllowed(fn).  global.document is "undefined", the placeholder
\* {} the function installs, or a document the environment provides; it is
\* carried in the record of the call.  fn is the list of its steps: a step
\* throws, or calls withSetStateAllowed with an inner fn.

MaxDepth == 4

Documents == {"undefined", "placeholder", "document"}

Throw == [kind |-> "throw", fn |-> <<>>]

\* The fns that nest calls at most d deep: each returns or throws, after at
\* most one nested call.
RECURSIVE FnsOfDepth(_)
FnsOfDepth(d) ==
    {<<>>, <<Throw>>}
        \cup (IF d = 0 THEN {}
              ELSE UNION {{<<[kind |-> "call", fn |-> f]>>,
                           <<[kind |-> "call", fn |-> f], Throw>>} : f \in FnsOfDepth(d - 1)})

RECURSIVE withSetStateAllowed(_, _)
RECURSIVE run(_, _)

\* fn(): the steps in order, up to the first that throws.
run(fn, doc) ==
    IF fn = <<>> THEN [document |-> doc, threw |-> FALSE]
    ELSE IF Head(fn).kind = "throw" THEN [document |-> doc, threw |-> TRUE]
    ELSE LET r == withSetStateAllowed(Head(fn).fn, doc)
         IN IF r.threw THEN [document |-> r.document, threw |-> TRUE]
            ELSE run(Tail(fn), r.document)

\* A withSetStateAllowed that cleans up in a finally block.
withSetStateAllowedFinally(fn, doc) ==
    LET cleanup == doc = "undefined"
        r == run(fn, IF cleanup THEN "placeholder" ELSE doc)
    IN [document |-> IF cleanup THEN "undefined" ELSE r.document,
        threw |-> r.threw, installed |-> cleanup, calls |-> 1]

\* cleanup = typeof global.document === 'undefined'; fn(); if (cleanup)
\* delete global.document: not reached when fn throws.
withSetStateAllowed(fn, doc) ==
    LET cleanup == doc = "undefined"
        r == run(fn, IF cleanup THEN "placeholder" ELSE doc)
    IN [document |-> IF cleanup /\ ~r.threw THEN "undefined" ELSE r.document,
        threw |-> r.threw, installed |-> cleanup, calls |-> 1]

WithSetStateAllowed ==
    \E fn \in FnsOfDepth(MaxDepth) :
        LET r == withSetStateAllowed(fn, pure.document)
        IN /\ pure.op \in {"global", "withSetStateAllowed"}
           /\ pure' = [op |-> "withSetStateAllowed", fn |-> fn, before |-> pure.document,
                       document |-> r.document, threw |-> r.threw,
                       installed |-> r.installed, calls |-> r.calls]
           /\ PredicateFrame

\* The environment may provide a document, or none.
InitDoc ==
    /\ NoWrapper
    /\ \E doc \in Documents \ {"placeholder"} : pure = [op |-> "global", document |-> doc]

NextDoc == WithSetStateAllowed

SpecDoc == InitDoc /\ [][NextDoc]_vars

----------------------------------------------------------------------------
\* The rendered tree, by places.  A place of the tree of element n is the
\* path of child indexes leading to it from n.

RECURSIVE Places(_)
Places(n) ==
    {<<>>} \cup UNION {{<<i>> \o q : q \in Places(kids[n][i])} : i \in 1..Len(kids[n])}

RECURSIVE ElementAt(_, _)
ElementAt(n, place) ==
    IF place = <<>> THEN n ELSE ElementAt(kids[n][Head(place)], Tail(place))

PlacesOf(n, x) == {q \in Places(n) : ElementAt(n, q) = x}

\* Pre-order: a place comes before the places under it and before the places
\* under its later siblings.
Precedes(p, q) ==
    \/ Len(p) < Len(q) /\ SubSeq(q, 1, Len(p)) = p
    \/ \E i \in 1..Len(p) :
           /\ i <= Len(q)
           /\ SubSeq(p, 1, i - 1) = SubSeq(q, 1, i - 1)
           /\ p[i] < q[i]

FirstPlace(n, x) == CHOOSE q \in PlacesOf(n, x) : \A r \in PlacesOf(n, x) \ {q} : Precedes(q, r)

NoRepeats(s) == \A i, j \in 1..Len(s) : s[i] = s[j] => i = j

\* The proper ancestors of the place, nearest first.
AncestorsOf(n, place) ==
    [i \in 1..Len(place) |-> ElementAt(n, SubSeq(place, 1, Len(place) - i))]

\* x sits at one place of the root's rendered tree.
OnePlace(x) == x # Undefined /\ Cardinality(PlacesOf(rootNode, x)) = 1

ThePlace(x) == CHOOSE q \in PlacesOf(rootNode, x) : TRUE

----------------------------------------------------------------------------
\* Descendant search (find, findWhere).

\* C1, as claimed: find on a one-node wrapper returns one node for every place
\* of the node's subtree whose element satisfies the predicate, in pre-order,
\* so findWhere(() => true) returns as many nodes as the tree has places.
C1_FindReturnsEveryPlace ==
    (last.op = "find" /\ Len(last.recv) = 1 /\ last.recv[1] # Undefined) =>
        LET n == last.recv[1]
            hits == {q \in Places(n) : ElementAt(n, q) \in last.sel}
        IN /\ Len(last.res) = Cardinality(hits)
           /\ \A q \in hits : \E i \in 1..Len(last.res) :
                  /\ last.res[i] = ElementAt(n, q)
                  /\ Cardinality({r \in hits : Precedes(r, q)}) = i - 1

\* C1, amended: find on a one-node wrapper returns exactly the distinct nodes
\* of the node's subtree that satisfy the predicate, each once, in the
\* pre-order of their first places; the node itself comes first when it
\* matches.
C1_FindPreOrderDistinct ==
    (last.op = "find" /\ Len(last.recv) = 1 /\ last.recv[1] # Undefined) =>
        LET n == last.recv[1]
            res == last.res
        IN /\ ~last.threw
           /\ Range(res) = {x \in Scope(last.recv) : x \in last.sel}
           /\ NoRepeats(res)
           /\ \A i, j \in 1..Len(res) :
                  i < j => Precedes(FirstPlace(n, res[i]), FirstPlace(n, res[j]))
           /\ n \in last.sel => res[1] = n

\* A find that returned the node itself, skipped its first child, and
\* returned a node below that child before the node's second child.
C1_Witness ==
    /\ last.op = "find"
    /\ Len(last.recv) = 1
    /\ Len(last.res) = 3
    /\ last.res[1] = last.recv[1]
    /\ Scope(last.recv) \ Range(last.res) # {}
    /\ Len(FirstPlace(last.recv[1], last.res[2])) = 2
    /\ Len(FirstPlace(last.recv[1], last.res[3])) = 1

----------------------------------------------------------------------------
\* Ancestors (parents, parent, closest).

\* C2, as claimed: parents() of a node with a place in the root's tree returns
\* the proper ancestors of that place and nothing else, nearest first and the
\* root's node last.
C2_ParentsAreTheAncestors ==
    (last.op = "parents" /\ ~last.hasSel /\ Len(last.recv) = 1 /\ OnePlace(last.recv[1])) =>
        /\ ~last.threw
        /\ last.res = AncestorsOf(rootNode, ThePlace(last.recv[1]))

\* The immediate parent of an element with one place in the root's tree.
ParentOf(x) == AncestorsOf(rootNode, ThePlace(x))[1]

\* C3, as claimed: parent() returns the immediate parents of the collection's
\* nodes and no other node.
C3_ParentIsTheImmediateParent ==
    (/\ last.op = "parent"
     /\ last.recv # <<>>
     /\ \A i \in 1..Len(last.recv) : OnePlace(last.recv[i]) /\ last.recv[i] # rootNode) =>
        /\ ~last.threw
        /\ Range(last.res) = {ParentOf(last.recv[i]) : i \in 1..Len(last.recv)}

\* C4, as claimed: a node below the root is among the children() of its
\* parent().
C4_ParentChildrenInverse ==
    (/\ last.op = "parent"
     /\ Len(last.recv) = 1
     /\ last.recv[1] \in Scope(<<rootNode>>) \ {rootNode}) =>
        /\ ~last.threw
        /\ last.recv[1] \in Range(children(last.res, FALSE, {}).res)

\* C5, as claimed: closest returns the wrapper itself when its node matches,
\* and else the nearest ancestor that matches.
C5_ClosestSelfOrNearestAncestor ==
    (last.op = "closest" /\ Len(last.recv) = 1 /\ OnePlace(last.recv[1])) =>
        LET n == last.recv[1]
            anc == AncestorsOf(rootNode, ThePlace(n))
            hits == {i \in 1..Len(anc) : anc[i] \in last.sel}
        IN /\ ~last.threw
           /\ n \in last.sel => last.self /\ last.res = last.recv
           /\ (n \notin last.sel /\ hits # {}) =>
                  /\ ~last.self
                  /\ \E i \in hits : last.res = <<anc[i]>> /\ \A j \in hits : i <= j

\* C6, as claimed: closest on a node that matches and has a matching ancestor
\* returns another node than the wrapper's own.
C6_ClosestNeverReturnsItself ==
    (/\ last.op = "closest"
     /\ Len(last.recv) = 1
     /\ OnePlace(last.recv[1])
     /\ last.recv[1] \in last.sel
     /\ \E q \in PlacesOf(rootNode, last.recv[1]) :
            \E i \in 1..Len(q) : AncestorsOf(rootNode, q)[i] \in last.sel) =>
        /\ ~last.threw
        /\ ~last.self
        /\ last.res[1] # last.recv[1]

----------------------------------------------------------------------------
\* Children.

\* The index of the first occurrence of x in s.
FirstIndex(s, x) == CHOOSE i \in 1..Len(s) : s[i] = x /\ \A j \in 1..(i - 1) : s[j] # x

\* s lists the members of the set once each, in the order of their first
\* occurrences in all.
ListsOnce(s, members, all) ==
    /\ Range(s) = members
    /\ NoRepeats(s)
    /\ \A i, j \in 1..Len(s) : i < j => FirstIndex(all, s[i]) < FirstIndex(all, s[j])

\* C7, as claimed: children() of a node with k direct children has length k
\* and lists them in render order; children(selector) is that list filtered.
C7_ChildrenAreTheKDirectChildren ==
    (last.op = "children" /\ Len(last.recv) = 1 /\ last.recv[1] # Undefined) =>
        LET direct == kids[last.recv[1]]
        IN last.res = IF last.hasSel THEN SelectSeq(direct, LAMBDA x : x \in last.sel)
                      ELSE direct

\* C7, amended: children() of one node lists the node's distinct direct
\* children, each once, in render order of their first occurrences, and no
\* grandchild; it has length k when the k children are distinct values;
\* children(selector) keeps the ones the selector matches.
C7_ChildrenAreTheDistinctDirectChildren ==
    (last.op = "children" /\ Len(last.recv) = 1 /\ last.recv[1] # Undefined) =>
        LET direct == kids[last.recv[1]]
            kept == IF last.hasSel THEN Range(direct) \cap last.sel ELSE Range(direct)
        IN /\ ~last.threw
           /\ ListsOnce(last.res, kept, direct)
           /\ (~last.hasSel /\ NoRepeats(direct)) => last.res = direct

\* children() of a node that has two children, one of them with a child of
\* its own.
C7_Witness ==
    /\ last.op = "children"
    /\ ~last.hasSel
    /\ Len(last.recv) = 1
    /\ Len(last.res) = 2
    /\ \E i \in 1..2 : kids[last.res[i]] # <<>>
    /\ \A i \in 1..2 : \A j \in 1..Len(kids[last.res[i]]) : kids[last.res[i]][j] \notin Range(last.res)

----------------------------------------------------------------------------
\* filter, not.

\* a is b with some elements left out.
IsSubSequence(a, b) ==
    \E f \in [1..Len(a) -> 1..Len(b)] :
        /\ \A i \in 1..Len(a) : b[f[i]] = a[i]
        /\ \A i, j \in 1..Len(a) : i < j => f[i] < f[j]

\* C8, as claimed: filter(sel) and not(sel) split the collection: each is the
\* collection with some nodes left out, no node is in both, and the lengths
\* add up to the collection's.
C8_FilterAndNotPartition ==
    (last.op = "filter") =>
        LET kept == last.res
            dropped == not(last.recv, last.sel).res
        IN /\ ~last.threw
           /\ IsSubSequence(kept, last.recv)
           /\ IsSubSequence(dropped, last.recv)
           /\ Range(kept) \cap Range(dropped) = {}
           /\ Len(kept) + Len(dropped) = Len(last.recv)

----------------------------------------------------------------------------
\* flatMap.

\* The places of the values fn returns: <<i, k>> is the k-th value returned
\* for the i-th node.
Slots(recv, fn) ==
    UNION {{<<i, k>> : k \in 1..Len(applyFn(fn, recv[i]))} : i \in 1..Len(recv)}

SlotValue(recv, fn, s) == applyFn(fn, recv[s[1]])[s[2]]

SlotBefore(s, t) == s[1] < t[1] \/ (s[1] = t[1] /\ s[2] < t[2])

FirstSlot(recv, fn, x) ==
    CHOOSE s \in Slots(recv, fn) :
        /\ SlotValue(recv, fn, s) = x
        /\ \A t \in Slots(recv, fn) : SlotValue(recv, fn, t) = x => (t = s \/ SlotBefore(s, t))

\* C9: flatMap returns every value fn returned for a node of the collection
\* exactly once, in the order of the first places of the values in the
\* concatenation of fn's results taken in collection order.
C9_FlatMapConcatenatesAndDeduplicates ==
    (last.op = "flatMap") =>
        LET recv == last.recv
            fn == last.fn
            res == last.res
        IN /\ ~last.threw
           /\ Range(res) = {SlotValue(recv, fn, s) : s \in Slots(recv, fn)}
           /\ NoRepeats(res)
           /\ \A i, j \in 1..Len(res) :
                  i < j => SlotBefore(FirstSlot(recv, fn, res[i]), FirstSlot(recv, fn, res[j]))

\* A flatMap over two nodes whose results overlap: w => w.children().nodes on
\* two nodes that share a child, one of them with another child.
C9_Witness ==
    /\ last.op = "flatMap"
    /\ last.fn.kind = "kids"
    /\ Len(last.recv) = 2
    /\ Len(last.res) >= 2
    /\ Cardinality(Slots(last.recv, last.fn)) > Len(last.res)
    /\ Len(applyFn(last.fn, last.recv[1])) >= 1
    /\ Len(applyFn(last.fn, last.recv[2])) >= 1

----------------------------------------------------------------------------
\* single.

SingleOps == {"is", "text", "props", "prop", "type", "hasClass", "parents", "closest",
              "shallow", "simulate"}

\* C10: a single-node-only operation called on a collection of length 0 or of
\* length above 1 throws, calls no callback and no handler, and leaves the
\* collection and the root's snapshot as they were.
C10_SingleNodeOperationsThrow ==
    (last.op \in SingleOps /\ Len(last.recv) # 1) =>
        /\ last.threw
        /\ last.cb = <<>>
        /\ ~last.val
        /\ ~last.wrapper
        /\ nodes = last.recv
        /\ last.after = last.before
        /\ rootNode = last.before

\* simulate called on a wrapper of two nodes.
C10_Witness ==
    /\ last.op = "simulate"
    /\ Len(last.recv) = 2
    /\ last.sel = Nodes
    /\ last.threw

----------------------------------------------------------------------------
\* The life cycle (setProps, setState, state, update, simulate).

RootOnlyOps == {"setProps", "setState", "state", "update"}

\* The wrapper the caller holds is as it was when the call began.
HeldAsBefore ==
    /\ nodes = trace.was.nodes
    /\ thisNode = trace.was.node
    /\ thisLength = trace.was.length
    /\ isRoot = trace.was.isRoot

\* The root's snapshot is as it was when the call began.
SnapshotAsBefore == rootNode = trace.was.rootNode /\ rootNodes = trace.was.rootNodes

\* The renderer and the component are as they were when the call began.
RendererAsBefore ==
    /\ output = trace.was.output
    /\ instance = trace.was.instance
    /\ unrendered = trace.was.unrendered
    /\ trace.rendered = <<>>

\* The root's snapshot is the renderer's current output.
SnapshotRefreshed == rootNode = output /\ rootNodes = <<rootNode>>

\* C11: setState, setProps, state() and update() called on a wrapper that is
\* not the root throw, before the renderer is touched: the root's snapshot,
\* the component's props and state, the render output and the calling wrapper
\* are as before, and state() returns nothing.
C11_RootOnlyOperationsThrow ==
    (last.op \in RootOnlyOps /\ ~trace.recvRoot) =>
        /\ last.threw
        /\ trace.ret = <<>>
        /\ RendererAsBefore
        /\ SnapshotAsBefore
        /\ HeldAsBefore

\* setState with a state object on a wrapper of one node that is not the root
\* (so it is the root guard that throws, not single).
C11_Witness ==
    /\ last.op = "setState"
    /\ ~trace.recvRoot
    /\ ~isRoot
    /\ Len(nodes) = 1
    /\ trace.arg # EmptyObject
    /\ last.threw

\* C12: when setProps, setState or a simulate that found a handler returns,
\* the root's snapshot is refreshed: root.node is the renderer's current
\* output and root.nodes is [root.node]; a find on the root then searches the
\* new tree (it lists an element once), and state() returns the state
\* setState merged.
C12_SnapshotRefreshedOnReturn ==
    (/\ last.op \in {"setProps", "setState", "simulate"}
     /\ ~last.threw
     /\ last.op = "simulate" => last.val) =>
        /\ SnapshotRefreshed
        /\ \A sel \in Selectors(<<output>>) :
               find(rootNodes, sel).res = unique(treeFilter(output, sel))
        /\ last.op = "setState" =>
               stateOf(instance.state, NoName) = <<merge(trace.was.instance.state, trace.arg)>>

\* A simulate on a wrapper that is not the root, whose handler made the
\* component render another output than the root's snapshot held.
C12_Witness ==
    /\ last.op = "simulate"
    /\ ~isRoot
    /\ ~trace.recvRoot
    /\ last.val
    /\ rootNode # trace.was.rootNode
    /\ instance.state # trace.was.instance.state

\* C13: setProps, setState, update and simulate on the root leave a wrapper
\* that is not the root as it was: the same nodes, node, length and root.
C13_OtherWrappersUnchanged ==
    (/\ last.op \in {"setProps", "setState", "update", "simulate"}
     /\ ~last.threw
     /\ ~trace.was.isRoot) =>
        HeldAsBefore

\* A setState on the root that replaced the root's node while the caller holds
\* a wrapper of one node, which is no node of the new tree.
C13_Witness ==
    /\ last.op = "setState"
    /\ trace.recvRoot
    /\ ~isRoot
    /\ ~last.threw
    /\ Len(nodes) = 1
    /\ rootNode # trace.was.rootNode
    /\ nodes[1] \notin Scope(rootNodes)
    /\ nodes[1] \in Scope(trace.was.rootNodes)

C15_SetPropsMergesIntoExistingProps ==
    (last.op = "setProps" /\ ~last.threw) =>
        instance.props = merge(trace.was.instance.props, trace.arg)

\* The receiver's nodes when the call began.
ReceiverNodes == IF trace.recvRoot THEN trace.was.rootNodes ELSE trace.was.nodes

\* C16: simulate(event, ...args) on a wrapper of one node returns the same
\* wrapper and does not throw; with a handler prop for the event the handler
\* is called once, with the arguments in order, and the root's snapshot is
\* refreshed; without, no handler is called and the root's snapshot, the
\* renderer and the component are as before.
C16_SimulateCallsTheHandlerOnce ==
    (last.op = "simulate" /\ Len(ReceiverNodes) = 1) =>
        /\ ~last.threw
        /\ last.self
        /\ last.res = ReceiverNodes
        /\ IF trace.handlerProp # NoProp /\ ReceiverNodes[1] # Undefined
           THEN trace.calls = <<trace.args>> /\ SnapshotRefreshed
           ELSE trace.calls = <<>> /\ SnapshotAsBefore /\ RendererAsBefore

\* simulate('click', a, b) on a wrapper that is not the root, with a handler
\* that made the component render again.
C16_Witness ==
    /\ last.op = "simulate"
    /\ trace.event = click
    /\ trace.args = <<"a", "b">>
    /\ trace.calls = <<<<"a", "b">>>>
    /\ ~trace.recvRoot
    /\ rootNode # trace.was.rootNode

\* C17, as claimed: simulate of a DOM event name calls the handler bound
\* under 'on' + the capitalised React name the table gives (keydown:
\* onKeyDown), as it does for click: onClick.
C17_SimulateMapsTheEventName ==
    (/\ last.op = "simulate"
     /\ Len(last.recv) = 1
     /\ last.recv[1] # Undefined
     /\ trace.handlerProp = propFromMappedEvent(trace.event)) =>
        /\ last.val
        /\ trace.calls = <<trace.args>>

\* C18: in every state, for the wrapper the caller holds and for the root:
\* length is nodes.length, and node is nodes[0] when there is one.
C18_LengthAndNodeFollowNodes ==
    /\ thisLength = Len(nodes)
    /\ thisLength >= 1 => thisNode = nodes[1]
    /\ Len(rootNodes) = 1
    /\ rootNode = rootNodes[1]
    /\ isRoot => (nodes = rootNodes /\ thisNode = rootNode)

\* The root after a setProps that replaced its node, and a wrapper of two
\* nodes the caller holds.
C18_Witness ==
    /\ last.op = "setProps"
    /\ trace.recvRoot
    /\ ~last.threw
    /\ rootNode # trace.was.rootNode
    /\ thisLength = MaxKids
    /\ nodes[1] # nodes[MaxKids]

----------------------------------------------------------------------------
\* Structural equality.

\* C19, as claimed: nodeEqual(n, n) is true for every node description n, and
\* nodeEqual(a, b) and nodeEqual(b, a) come out the same for all a, b (a
\* TypeError on both sides counting as the same); likewise childrenEqual.
C19_EqualityReflexiveAndSymmetric ==
    (pure.op \in {"nodeEqual", "childrenEqual"}) =>
        /\ pure.ab = pure.ba
        /\ pure.op = "nodeEqual" => pure.aa = True

----------------------------------------------------------------------------
\* Selectors that are refused.

SelectorOps ==
    {"buildPredicate", "find", "filter", "not", "is", "children", "parents", "closest"}

\* The selector is a string that contains whitespace, '>', ':' or '~'.
Complex(selector) ==
    /\ selector.kind = "string"
    /\ \E i \in 1..Len(selector.val) : selector.val[i] \in {" ", "\t", "\n", ">", ":", "~"}

NeitherStringNorFunction(selector) == selector.kind \notin {"string", "function"}

\* The call raised a TypeError.
RaisedTypeError == last.threw /\ pure.error = "TypeError"

\* The message of the error raised quotes the selector passed.
NamesTheSelector ==
    /\ pure.selector.kind = "string"
    /\ \E i \in 1..Len(pure.message.quoted) : pure.message.quoted[i] = pure.selector.val

\* The operations that compile the selector before anything else.
CompiledFirst == pure.op \in {"buildPredicate", "find", "filter", "not", "is", "closest"}

\* The call gets as far as compiling its selector: children(sel) and
\* parents(sel) when the selector is truthy, parents(sel) on a wrapper of one
\* node that is in the tree of the root.
SelectorReached ==
    \/ CompiledFirst
    \/ pure.op = "children" /\ ~falsy(pure.selector)
    \/ /\ pure.op = "parents"
       /\ ~falsy(pure.selector)
       /\ Len(last.recv) = 1
       /\ last.recv[1] \in Nodes
       /\ last.recv[1] \in reachFrom(kids, rootNode)

\* children() and parents() are the calls without a selector.
SelectorPassed ==
    ~(pure.op \in {"children", "parents"} /\ pure.selector = UndefinedValue)

\* C20, as claimed: buildPredicate, find, filter, not, is, children(sel),
\* parents(sel) and closest raise a TypeError naming the selector, before
\* any node is examined, for every string selector that contains
\* whitespace, '>', ':' or '~', and raise a TypeError for every selector
\* that is neither a string nor a function.
C20_EveryOperationRefusesTheSelector ==
    (pure.op \in SelectorOps /\ SelectorPassed) =>
        /\ Complex(pure.selector) =>
               RaisedTypeError /\ NamesTheSelector /\ pure.examined = {}
        /\ NeitherStringNorFunction(pure.selector) => RaisedTypeError

\* C20, as the code has it: buildPredicate, and find, filter, not, is and
\* closest, which compile the selector first, raise a TypeError naming the
\* selector, before any node is examined, for every string selector that
\* contains whitespace, '>', ':' or '~', and a TypeError for every selector
\* that is neither a string nor a function.  children(sel) and parents(sel)
\* raise them too, but after the children or the ancestors were collected,
\* and only when the call gets that far: a falsy selector (null, 0, false)
\* is no selector, and parents on a wrapper of another length than one
\* raises the Error of single.
C20_SelectorRefusedWhereItIsCompiled ==
    (pure.op \in SelectorOps) =>
        /\ (Complex(pure.selector) /\ SelectorReached) =>
               RaisedTypeError /\ NamesTheSelector
        /\ (Complex(pure.selector) /\ CompiledFirst) => pure.examined = {}
        /\ (NeitherStringNorFunction(pure.selector) /\ SelectorReached) =>
               RaisedTypeError
        /\ (pure.op = "children" /\ NeitherStringNorFunction(pure.selector)
                /\ falsy(pure.selector)) => ~last.threw
        /\ (pure.op = "parents" /\ Len(last.recv) # 1) =>
               last.threw /\ pure.error = "Error"

\* find('a a') on the root raised the TypeError that names 'a a'.
C20_Witness ==
    /\ pure.op = "find"
    /\ last.op = "find"
    /\ last.recv = <<rootNode>>
    /\ pure.selector = StringValue(<<"a", " ", "a">>)
    /\ RaisedTypeError
    /\ NamesTheSelector
    /\ pure.examined = {}

\* C21, as claimed: compiling '[attr]', '[attr=value]' or 'tag[attr]' raises
\* a TypeError that names the selector, and returns no predicate.
C21_BracketSelectorsRaise ==
    (pure.op = "buildPredicate" /\ pure.selector.kind = "string"
        /\ pure.selector.val \in BracketSelectors) =>
            RaisedTypeError /\ NamesTheSelector

----------------------------------------------------------------------------
\* Compiled predicates.

\* Every fragment's own predicate holds of the node.
EachFragmentHolds ==
    /\ pure.tag # <<>> => pure.tagAlone = True
    /\ \A i \in 1..Len(pure.each) : pure.each[i] = True

\* C22, as claimed: the selector made of an optional tag and of '.class' and
\* '#id' fragments, with no separator, compiles to a predicate that holds of
\* a node iff the predicate of each fragment holds of it, whatever the
\* characters of the names, and whatever the order of the fragments.
C22_CompoundIsTheAndOfItsFragments ==
    (pure.op = "compound" /\ pure.selector # <<>>) =>
        /\ pure.whole = (IF EachFragmentHolds THEN True ELSE False)
        /\ pure.reversed = pure.whole

\* C23, as claimed: for every selector and every rendered unit,
\* buildPredicate(selector) on the unit's element and
\* buildInstPredicate(selector) on its mounted instance give the same.
C23_ShallowAndMountedAgree ==
    (pure.op = "agree") => pure.shallow = pure.mounted

\* The name is one of the tokens of the className, cut at the spaces.
IsToken(name, classes) ==
    \E i \in 1..Len(classes), j \in 1..Len(classes) :
        /\ SubSeq(classes, i, j) = name
        /\ i = 1 \/ classes[i - 1] = " "
        /\ j = Len(classes) \/ classes[j + 1] = " "

\* A class name: not empty, without a space.
IsClassName(name) == name # <<>> /\ \A i \in 1..Len(name) : name[i] # " "

\* C26, as claimed: hasClassName(node, name) holds exactly when the name is
\* one of the space-delimited tokens of the node's className, compared
\* case-sensitively; a node without className matches no class name.
C26_HasClassNameIsTokenMembership ==
    (pure.op = "hasClassName") =>
        /\ pure.holds = (/\ pure.node.className # <<>>
                         /\ pure.className # <<>>
                         /\ IsToken(pure.className, pure.node.className[1]))
        /\ pure.node.className = <<>> => ~pure.holds

\* C26, for the names that are class names: hasClassName(node, name) holds
\* exactly when the name, not empty and without a space, is one of the
\* space-delimited tokens of the className, compared case-sensitively, and a
\* node without className matches none of them.  For the other names it
\* holds exactly when ' ' + name + ' ' occurs in ' ' + className + ' ': a
\* name with a space matches a run of tokens, and the empty name matches
\* an absent or empty className and one with two spaces in a row.
C26_HasClassNameOfClassNames ==
    (pure.op = "hasClassName") =>
        /\ IsClassName(pure.className) =>
               pure.holds = (/\ pure.node.className # <<>>
                             /\ IsToken(pure.className, pure.node.className[1]))
        /\ ~IsClassName(pure.className) =>
               pure.holds = includes(<<" ">> \o classesOf(pure.node) \o <<" ">>,
                                     <<" ">> \o pure.className \o <<" ">>)

\* hasClassName(<a className="a b" />, 'a') holds.
C26_Witness ==
    /\ pure.op = "hasClassName"
    /\ pure.className = <<"a">>
    /\ pure.node.className = <<<<"a", " ", "b">>>>
    /\ pure.holds

----------------------------------------------------------------------------
\* Iteration.

\* C24: forEach(fn) and map(fn) call fn once per node of the collection, in
\* the stored order, with a wrapper of length 1 around that node, which is
\* no root of its own, and the node's index; map returns the array of what
\* fn returned, in that order, and forEach returns the wrapper it was called
\* on; the collection is as before.
C24_ForEachAndMapVisitInOrder ==
    (last.op \in {"forEach", "map"}) =>
        /\ ~last.threw
        /\ Len(trace.calls) = Len(last.recv)
        /\ \A i \in 1..Len(last.recv) :
               /\ trace.calls[i].wrapper.nodes = <<last.recv[i]>>
               /\ trace.calls[i].wrapper.node = last.recv[i]
               /\ trace.calls[i].wrapper.length = 1
               /\ ~trace.calls[i].isRoot
               /\ trace.calls[i].index = i - 1
        /\ last.op = "map" =>
               /\ ~last.wrapper
               /\ Len(trace.ret) = Len(last.recv)
               /\ \A i \in 1..Len(last.recv) :
                      trace.ret[i] = applyMapFn(trace.name, trace.calls[i])
        /\ last.op = "forEach" => last.wrapper /\ last.self /\ last.res = last.recv
        /\ HeldAsBefore
        /\ SnapshotAsBefore

\* map((w, i) => i) on a wrapper of two distinct nodes returned [0, 1].
C24_Witness ==
    /\ last.op = "map"
    /\ trace.name = "index"
    /\ Len(last.recv) = MaxKids
    /\ last.recv[1] # last.recv[MaxKids]
    /\ trace.ret[1] = 0
    /\ trace.ret[MaxKids] = MaxKids - 1

----------------------------------------------------------------------------
\* What nodeEqual decides.

KeySet(a) == {propsOfNode(a)[i][1] : i \in 1..Len(propsOfNode(a))}

\* Two prop values that are identical, or both objects and deeply equal.
SameOrDeeplyEqual(v, w) ==
    \/ v.kind # "NaN" /\ v = w
    \/ v.kind = "object" /\ w.kind = "object" /\ v.val = w.val

\* a and b are the same reference, or both are present (truthy, as the code
\* has it) with the same type, identical key sets, every prop but children
\* identical or deeply equal, and children that childrenEqual finds equal.
StructurallyEqual(a, b) ==
    \/ a.kind # "NaN" /\ a = b
    \/ /\ ~falsy(a)
       /\ ~falsy(b)
       /\ (IF a.kind = "element" THEN <<a.type>> ELSE <<>>)
              = (IF b.kind = "element" THEN <<b.type>> ELSE <<>>)
       /\ KeySet(a) = KeySet(b)
       /\ \A key \in KeySet(a) \ {"children"} :
              SameOrDeeplyEqual(valueAt(propsOfNode(a), key), valueAt(propsOfNode(b), key))
       /\ "children" \in KeySet(a) =>
              childrenEqual(valueAt(propsOfNode(a), "children"),
                            valueAt(propsOfNode(b), "children")) = True

\* C25: nodeEqual(a, b) is true iff a and b are the same reference, or both
\* are present with the same type, identical key sets, every non-children
\* prop identical or (both objects) deeply equal, and children equal under
\* childrenEqual; childrenEqual compares two values that are no lists with
\* nodeEqual, and finds two lists equal exactly when they have the same
\* length and are nodeEqual item by item.
C25_NodeEqualIsStructuralEquality ==
    /\ pure.op = "nodeEqual" => ((pure.ab = True) <=> StructurallyEqual(pure.a, pure.b))
    /\ (pure.op = "childrenEqual" /\ pure.a.kind # "array" /\ pure.b.kind # "array") =>
           pure.ab = nodeEqual(pure.a, pure.b)
    /\ (pure.op = "childrenEqual" /\ pure.a.kind = "array" /\ pure.b.kind = "array") =>
           ((pure.ab = True) <=>
               /\ Len(pure.a.items) = Len(pure.b.items)
               /\ \A i \in 1..Len(pure.a.items) :
                      nodeEqual(pure.a.items[i], pure.b.items[i]) = True)

\* Two elements with distinct references and deeply equal id objects, found
\* equal.
C25_Witness ==
    /\ pure.op = "nodeEqual"
    /\ pure.a.kind = "element"
    /\ pure.b.kind = "element"
    /\ pure.a.ref # pure.b.ref
    /\ hasKey(pure.a.props, "id")
    /\ hasKey(pure.b.props, "id")
    /\ valueAt(pure.a.props, "id").kind = "object"
    /\ valueAt(pure.b.props, "id").kind = "object"
    /\ valueAt(pure.a.props, "id") # valueAt(pure.b.props, "id")
    /\ pure.ab = True

\* A text or number leaf that is truthy.
TruthyLeaf(a) == a.kind \in {"string", "number"} /\ ~falsy(a)

\* An element whose only prop is one text or number child.
WithOneLeaf(a) ==
    /\ a.kind = "element"
    /\ Len(a.props) = 1
    /\ a.props[1][1] = "children"
    /\ TruthyLeaf(a.props[1][2])

\* C27: nodeEqual(x, y) is true for any two truthy text or number leaves, so
\* two elements of the same type whose single text child differs are
\* nodeEqual, and contains finds an element in a tree that is the same
\* element with another text.
C27_PrimitiveLeavesAreAllEqual ==
    /\ (pure.op = "nodeEqual" /\ TruthyLeaf(pure.a) /\ TruthyLeaf(pure.b)) =>
           pure.ab = True
    /\ (pure.op = "nodeEqual" /\ WithOneLeaf(pure.a) /\ WithOneLeaf(pure.b)
            /\ pure.a.type = pure.b.type) =>
           pure.ab = True
    /\ (pure.op = "contains" /\ WithOneLeaf(pure.node) /\ WithOneLeaf(pure.tree)
            /\ pure.node.type = pure.tree.type) =>
           pure.found = True

\* contains(<div>ab</div>) on the tree <div>a</div> is true.
C27_Witness ==
    /\ pure.op = "contains"
    /\ pure.node = Element(MaxRefs, "div", <<<<"children", StringValue(<<"a", "b">>)>>>>)
    /\ pure.tree = Element(1, "div", <<<<"children", StringValue(<<"a">>)>>>>)
    /\ pure.found = True

----------------------------------------------------------------------------
\* Positional access.

\* The call returned a wrapper of length 1 whose only node is undefined, and
\* isEmpty() is false of it.
ReturnedUndefinedNode ==
    /\ ~last.threw
    /\ last.wrapper
    /\ last.res = <<Undefined>>
    /\ ShallowWrapper(last.res).length = 1
    /\ ShallowWrapper(last.res).node = Undefined
    /\ ~isEmpty(last.res)

\* C28: get(i), first() and last() never return an empty collection; get(i)
\* with i outside 0..length-1, hence first() and last() on an empty
\* collection, closest(sel) when neither the node nor any ancestor
\* matches, and parent() on the root wrapper return a wrapper of length 1
\* whose only node is undefined.
C28_PositionalAccessYieldsUndefinedNode ==
    /\ last.op \in {"get", "first", "last"} =>
           ~last.threw /\ ShallowWrapper(last.res).length = 1 /\ ~isEmpty(last.res)
    /\ (last.op = "get" /\ last.idx \notin 0..(Len(last.recv) - 1)) =>
           ReturnedUndefinedNode
    /\ (last.op \in {"first", "last"} /\ last.recv = <<>>) => ReturnedUndefinedNode
    /\ (/\ last.op = "closest"
        /\ Len(last.recv) = 1
        /\ OnePlace(last.recv[1])
        /\ last.recv[1] \notin last.sel
        /\ \A i \in 1..Len(ThePlace(last.recv[1])) :
               AncestorsOf(rootNode, ThePlace(last.recv[1]))[i] \notin last.sel) =>
           ReturnedUndefinedNode
    /\ (last.op = "parent" /\ last.recv = <<rootNode>>) => ReturnedUndefinedNode

\* last() on an empty wrapper returned the wrapper of [undefined].
C28_Witness ==
    /\ last.op = "last"
    /\ last.recv = <<>>
    /\ ReturnedUndefinedNode

----------------------------------------------------------------------------
\* Nodes that have left the root's tree.

\* n is not in the tree of the root's current snapshot.
Unreachable(n) == n \notin Nodes \/ n \notin reachFrom(kids, rootNode)

\* C29: pathToNode(target, root) returns null when the target is not
\* reachable from the root, and parents(), parent() and, for a node that
\* does not match, closest() on a wrapper of one node that is not in the
\* root's current snapshot raise an error and return no collection.
C29_UnreachableNodeRaises ==
    (/\ last.op \in {"parents", "parent", "closest"}
     /\ Len(last.recv) = 1
     /\ Unreachable(last.recv[1])
     /\ last.op = "closest" => last.recv[1] \notin last.sel) =>
        /\ ~pathToNode(last.recv[1], rootNode).found
        /\ last.threw
        /\ ~last.wrapper

\* parents() on a wrapper of a child of the first output, after setProps
\* made the root render an output without that child.
C29_Witness ==
    /\ last.op = "parents"
    /\ Len(last.recv) = 1
    /\ last.recv[1] \in Nodes
    /\ last.recv[1] \in reachFrom(kids, 1)
    /\ Unreachable(last.recv[1])
    /\ rootNode = MaxOutputs
    /\ last.threw

----------------------------------------------------------------------------
\* global.document around withSetStateAllowed.

Defined(doc) == doc # "undefined"

\* C30: withSetStateAllowed(fn) installs a placeholder document only when
\* none is defined, calls fn once, and removes the placeholder only if it
\* installed it and fn returned: after a normal return global.document is
\* defined iff it was before the call, nested calls included, and when fn
\* throws a placeholder the call installed stays defined.
C30_DocumentRestoredOnNormalReturn ==
    (pure.op = "withSetStateAllowed") =>
        /\ pure.installed <=> ~Defined(pure.before)
        /\ pure.calls = 1
        /\ ~pure.threw => pure.document = pure.before
        /\ Defined(pure.before) => pure.document = pure.before
        /\ (pure.threw /\ ~Defined(pure.before)) => pure.document = "placeholder"

\* No document was defined, fn made a nested call and then threw: the
\* placeholder is still there.
C30_Witness ==
    /\ pure.op = "withSetStateAllowed"
    /\ pure.before = "undefined"
    /\ Len(pure.fn) > 1
    /\ pure.fn[1].kind = "call"
    /\ pure.fn[1].fn # <<>>
    /\ ~run(pure.fn[1].fn, "placeholder").threw
    /\ pure.fn[Len(pure.fn)].kind = "throw"
    /\ pure.threw
    /\ pure.document = "placeholder"

====
